---- MODULE Spec2Model ----
(***************************************************************************)
(* Map generation of the RiskGame repository (src/src/mapGenerator.js,     *)
(* with the hex library src/unnamed/part_000 = hex.js and                  *)
(* calculateTerritoryNeighbors of src/src/territory.ts).                   *)
(*                                                                         *)
(* A hex is the pair <<q, r>>.  A hex key is the string "q,r" written as   *)
(* the sequence of its characters.  A JavaScript Set whose iteration       *)
(* order the code depends on (territory.hexes, territory.neighbors,        *)
(* unclaimed) is a duplicate-free sequence in insertion order; a Set that  *)
(* is only tested, added to or drawn from at random (emptyHexes, the       *)
(* frontiers) is a set.  A territory object is identified by its position  *)
(* in the territories array.                                               *)
(***************************************************************************)
EXTENDS Integers, Sequences, FiniteSets, TLC

VARIABLES
    pc,           \* position inside generateMap
    config,       \* finalConfig
    allHexes,     \* sequence of hexes of the grid
    emptyHexes,   \* set of hex keys of blocked tiles
    unclaimed,    \* hex keys not yet claimed, in insertion (grid) order
    territories,  \* sequence of territory records
    frontiers,    \* frontiers[i]: set of hex keys, one per territory
    iterations,   \* growth round counter
    order,        \* territory indices still to process in this round
    seeds,        \* the seed hexes returned by placeSeedPoints
    gameState,          \* main.js: the GameState record of the running game
    isComputerPlaying,  \* main.js: true while runComputerTurns is active
    gameGeneration,     \* main.js: incremented by every new game
    gameStarted,        \* main.js: true once "Start Game" was clicked
    coroutines,         \* the suspended activations of runComputerTurns
    overlays            \* the overlays shown in the document

mapVars == <<pc, config, allHexes, emptyHexes, unclaimed, territories,
             frontiers, iterations, order, seeds>>

gameVars == <<gameState, isComputerPlaying, gameGeneration, gameStarted,
              coroutines, overlays>>

vars == <<pc, config, allHexes, emptyHexes, unclaimed, territories,
          frontiers, iterations, order, seeds,
          gameState, isComputerPlaying, gameGeneration, gameStarted,
          coroutines, overlays>>

\* main.js lines 21-28: the module-level variables before init() has run
NullState == [phase |-> "null"]

NoGame ==
    /\ gameState = NullState
    /\ isComputerPlaying = FALSE
    /\ gameGeneration = 0
    /\ gameStarted = FALSE
    /\ coroutines = <<>>
    /\ overlays = {}

(***************************************************************************)
(* Bounds of the explored configurations.                                  *)
(***************************************************************************)
MaxWidth == 3
MaxHeight == 2
MaxTiles == 6
MaxCount == 4
MaxMinSize == 2
MaxMaxSize == 3

(***************************************************************************)
(* Generic helpers for sequences used as insertion-ordered sets.           *)
(***************************************************************************)
Range(s) == {s[i] : i \in 1..Len(s)}

SetAdd(s, x) == IF x \in Range(s) THEN s ELSE Append(s, x)

RECURSIVE SeqFilterOut(_, _)
SeqFilterOut(s, drop) ==
    IF s = <<>> THEN <<>>
    ELSE IF Head(s) \in drop THEN SeqFilterOut(Tail(s), drop)
    ELSE <<Head(s)>> \o SeqFilterOut(Tail(s), drop)

Max2(a, b) == IF a >= b THEN a ELSE b
Min2(a, b) == IF a <= b THEN a ELSE b

RECURSIVE SumSeq(_)
SumSeq(s) == IF s = <<>> THEN 0 ELSE Head(s) + SumSeq(Tail(s))

(***************************************************************************)
(* hex.js                                                                  *)
(***************************************************************************)
DIRECTIONS == << <<1, 0>>, <<1, -1>>, <<0, -1>>, <<-1, 0>>, <<-1, 1>>, <<0, 1>> >>

hexAdd(a, b) == <<a[1] + b[1], a[2] + b[2]>>

hexNeighbors(h) == [d \in 1..6 |-> hexAdd(h, DIRECTIONS[d])]

Digits == <<"0", "1", "2", "3", "4", "5", "6", "7", "8", "9">>

RECURSIVE NatToString(_)
NatToString(n) ==
    IF n < 10 THEN <<Digits[n + 1]>>
    ELSE NatToString(n \div 10) \o <<Digits[(n % 10) + 1]>>

\* String(n) of an integer, as a sequence of characters
NumberToString(n) == IF n < 0 THEN <<"-">> \o NatToString(-n) ELSE NatToString(n)

DigitValue(c) == CHOOSE d \in 0..9 : Digits[d + 1] = c

RECURSIVE StringToNat(_, _)
StringToNat(s, acc) ==
    IF s = <<>> THEN acc
    ELSE StringToNat(Tail(s), 10 * acc + DigitValue(Head(s)))

\* Number(s) for the strings String(n) produces
StringToNumber(s) ==
    IF s # <<>> /\ Head(s) = "-" THEN 0 - StringToNat(Tail(s), 0)
    ELSE StringToNat(s, 0)

\* key.split(','): the parts before and after the first comma
CommaAt(s) == CHOOSE i \in 1..Len(s) : s[i] = "," /\ \A j \in 1..(i - 1) : s[j] # ","

\* the key written without the signs of q and r
hexKeyUnsigned(h) ==
    NumberToString(IF h[1] < 0 THEN 0 - h[1] ELSE h[1]) \o <<",">> \o
    NumberToString(IF h[2] < 0 THEN 0 - h[2] ELSE h[2])

hexKey(h) == NumberToString(h[1]) \o <<",">> \o NumberToString(h[2])

parseHexKey(key) ==
    LET c == CommaAt(key)
    IN <<StringToNumber(SubSeq(key, 1, c - 1)),
         StringToNumber(SubSeq(key, c + 1, Len(key)))>>

\* the grid without the row offset floor(r / 2)
generateHexGridNoOffset(width, height) ==
    [k \in 1..(width * height) |-> <<(k - 1) % width, (k - 1) \div width>>]

generateHexGrid(width, height) ==
    [k \in 1..(width * height) |->
        LET row == (k - 1) \div width
            col == (k - 1) % width
        IN <<col - (row \div 2), row>>]

NeighborKeys(key) ==
    LET n == hexNeighbors(parseHexKey(key)) IN [d \in 1..6 |-> hexKey(n[d])]

(***************************************************************************)
(* Territory records (territory.ts: createTerritory, addHexToTerritory).   *)
(* name is the number n of the display name 'Territory n'.                 *)
(***************************************************************************)
createTerritory(id) == [id |-> id, name |-> id + 1, hexes |-> <<>>, neighbors |-> <<>>]

addHexToTerritory(territory, h) ==
    [territory EXCEPT !.hexes = SetAdd(territory.hexes, hexKey(h))]

Size(territory) == Len(territory.hexes)

(***************************************************************************)
(* shuffleArray: Fisher-Yates with Math.random can return every            *)
(* permutation of its argument.  Arrangements(s, k) is the set of the      *)
(* possible first k elements of shuffleArray(s).                           *)
(***************************************************************************)
RECURSIVE Arrangements(_, _)
Arrangements(s, k) ==
    IF k = 0 THEN {<<>>}
    ELSE UNION {{<<s[i]>> \o rest :
                    rest \in Arrangements(SeqFilterOut(s, {s[i]}), k - 1)} :
                i \in 1..Len(s)}

shuffleArray(s) == Arrangements(s, Len(s))

(***************************************************************************)
(* placeSeedPoints(hexes, count), given the outcome of its shuffle.        *)
(***************************************************************************)
minSpacing == 2

Abs(x) == IF x < 0 THEN 0 - x ELSE x

\* the spacing test with the threshold minSpacing instead of minSpacing * 2
tooCloseHalfSpacing(h, seedList) ==
    \E i \in 1..Len(seedList) :
        Abs(h[1] - seedList[i][1]) + Abs(h[2] - seedList[i][2]) < minSpacing

tooClose(h, seedList) ==
    \E i \in 1..Len(seedList) :
        Abs(h[1] - seedList[i][1]) + Abs(h[2] - seedList[i][2]) < minSpacing * 2

\* first loop: accept a hex when it is spaced from every accepted seed
RECURSIVE SpacedPass(_, _, _)
SpacedPass(shuffled, count, acc) ==
    IF shuffled = <<>> \/ Len(acc) >= count THEN acc
    ELSE SpacedPass(Tail(shuffled), count,
                    IF tooClose(Head(shuffled), acc) THEN acc
                    ELSE Append(acc, Head(shuffled)))

\* second loop: fill in with hexes not yet used, without spacing
RECURSIVE FillPass(_, _, _)
FillPass(shuffled, count, acc) ==
    IF shuffled = <<>> \/ Len(acc) >= count THEN acc
    ELSE FillPass(Tail(shuffled), count,
                  IF hexKey(Head(shuffled)) \in {hexKey(acc[i]) : i \in 1..Len(acc)}
                  THEN acc
                  ELSE Append(acc, Head(shuffled)))

\* placeSeedPoints without the second loop of lines 147-157
placeSeedPointsNoFill(shuffled, count) ==
    SpacedPass(shuffled, count, <<>>)

\* placeSeedPoints with the first pass stopping one seed late
placeSeedPointsOneTooMany(shuffled, count) ==
    LET first == SpacedPass(shuffled, count + 1, <<>>)
    IN IF Len(first) < count THEN FillPass(shuffled, count, first) ELSE first

placeSeedPoints(shuffled, count) ==
    LET first == SpacedPass(shuffled, count, <<>>)
    IN IF Len(first) < count THEN FillPass(shuffled, count, first) ELSE first

(***************************************************************************)
(* updateFrontier(territory, frontier, unclaimed, validHexes)              *)
(***************************************************************************)
\* the frontier without the pruning loop of lines 175-180
updateFrontierNoPrune(territory, frontier, uncl, validHexes) ==
    LET added == {k \in UNION {Range(NeighborKeys(territory.hexes[i])) :
                                  i \in 1..Len(territory.hexes)} :
                     k \in Range(uncl) /\ k \in validHexes}
    IN frontier \cup added

\* the frontier fed with every unclaimed valid hex, adjacent or not
updateFrontierAnyUnclaimed(territory, frontier, uncl, validHexes) ==
    LET added == {k \in Range(uncl) : k \in validHexes}
    IN {k \in frontier \cup added : k \in Range(uncl)}

updateFrontier(territory, frontier, uncl, validHexes) ==
    LET added == {k \in UNION {Range(NeighborKeys(territory.hexes[i])) :
                                  i \in 1..Len(territory.hexes)} :
                     k \in Range(uncl) /\ k \in validHexes}
    IN {k \in frontier \cup added : k \in Range(uncl)}

(***************************************************************************)
(* Configurations explored.                                                *)
(***************************************************************************)
Percents == {-10, 34, 200}

Configs ==
    {c \in [gridWidth : 0..MaxWidth, gridHeight : 0..MaxHeight,
            territoryCount : 0..MaxCount, minTerritorySize : 1..MaxMinSize,
            maxTerritorySize : 1..MaxMaxSize, emptyTilePercent : Percents] :
        /\ c.gridWidth * c.gridHeight <= MaxTiles
        /\ c.minTerritorySize <= c.maxTerritorySize}

allHexKeys == [i \in 1..Len(allHexes) |-> hexKey(allHexes[i])]

\* the percentage clamped from below only
clampedPercentNoCeiling == Max2(0, config.emptyTilePercent)

clampedPercent == Max2(0, Min2(50, config.emptyTilePercent))

emptyCount(total) == (total * clampedPercent) \div 100

\* validHexKeys of generateMap: emptyHexes does not change between the
\* blocked-tile selection and the end of the growth loop
validHexKeys == {k \in Range(allHexKeys) : k \notin emptyHexes}

maxIterations == config.gridWidth * config.gridHeight * 2

\* the state at the call of generateMap(c)
Started(c) ==
    /\ config = c
    /\ pc = "start"
    /\ allHexes = <<>>
    /\ emptyHexes = {}
    /\ unclaimed = <<>>
    /\ territories = <<>>
    /\ frontiers = <<>>
    /\ iterations = 0
    /\ order = <<>>
    /\ seeds = <<>>
    /\ NoGame

Init == \E c \in Configs : Started(c)

\* generateMap lines 23-41: the grid, the blocked tiles, the unclaimed pool
SelectBlockedWith(grid, prefix) ==
    /\ allHexes' = grid
    /\ emptyHexes' = {hexKey(prefix[i]) : i \in 1..Len(prefix)}
    /\ unclaimed' = SeqFilterOut([i \in 1..Len(grid) |-> hexKey(grid[i])], emptyHexes')
    /\ pc' = "seed"
    /\ UNCHANGED <<gameVars, config, territories, frontiers, iterations, order, seeds>>

SelectBlocked ==
    /\ pc = "start"
    /\ LET grid == generateHexGrid(config.gridWidth, config.gridHeight)
           count == emptyCount(Len(grid))
       IN \E prefix \in Arrangements(grid, Min2(count, Len(grid))) :
              SelectBlockedWith(grid, prefix)

\* generateMap lines 42-68: territories, seeds, initial frontiers
SeedTerritoriesWith(shuffled) ==
    LET count == config.territoryCount
        placed == placeSeedPoints(shuffled, count)
        created == [i \in 1..count |-> createTerritory(i - 1)]
        seeded == [i \in 1..count |->
                      IF i <= Len(placed) THEN addHexToTerritory(created[i], placed[i])
                      ELSE created[i]]
        pool == SeqFilterOut(unclaimed, {hexKey(placed[i]) : i \in 1..Len(placed)})
    IN IF Len(placed) > count
       THEN \* line 53: territories[i] is undefined, addHexToTerritory throws
            /\ pc' = "error"
            /\ seeds' = placed
            /\ territories' = created
            /\ UNCHANGED <<gameVars, config, allHexes, emptyHexes, unclaimed, frontiers,
                           iterations, order>>
       ELSE /\ seeds' = placed
            /\ territories' = seeded
            /\ unclaimed' = pool
            /\ frontiers' = [i \in 1..count |->
                                updateFrontier(seeded[i], {}, pool, validHexKeys)]
            /\ pc' = "loop"
            /\ UNCHANGED <<gameVars, config, allHexes, emptyHexes, iterations, order>>

\* the seed candidates taken from every grid hex, blocked tiles included
SeedTerritoriesAnyHex ==
    /\ pc = "seed"
    /\ \E shuffled \in shuffleArray(allHexes) : SeedTerritoriesWith(shuffled)

SeedTerritories ==
    /\ pc = "seed"
    /\ LET availableForSeeds ==
               SeqFilterOut(allHexes, {h \in Range(allHexes) : hexKey(h) \in emptyHexes})
       IN \E shuffled \in shuffleArray(availableForSeeds) : SeedTerritoriesWith(shuffled)

(***************************************************************************)
(* The growth loop, generateMap lines 69-104.                              *)
(***************************************************************************)
allMaxed == \A i \in 1..Len(territories) : Size(territories[i]) >= config.maxTerritorySize

\* a round started without counting it
BeginRoundUncounted(shuffledOrder) ==
    /\ order' = shuffledOrder
    /\ pc' = "round"
    /\ UNCHANGED <<gameVars, config, allHexes, emptyHexes, unclaimed, territories, frontiers,
                   iterations, seeds>>

\* line 72, loop condition true: lines 73-76
BeginRoundWith(shuffledOrder) ==
    /\ iterations' = iterations + 1
    /\ order' = shuffledOrder
    /\ pc' = "round"
    /\ UNCHANGED <<gameVars, config, allHexes, emptyHexes, unclaimed, territories, frontiers, seeds>>

BeginRound ==
    /\ pc = "loop"
    /\ Len(unclaimed) > 0 /\ iterations < maxIterations
    /\ \E shuffledOrder \in shuffleArray([i \in 1..Len(territories) |-> i]) :
           BeginRoundWith(shuffledOrder)

\* line 72, loop condition false
ExitLoop ==
    /\ pc = "loop"
    /\ ~(Len(unclaimed) > 0 /\ iterations < maxIterations)
    /\ pc' = "assign"
    /\ UNCHANGED <<gameVars, config, allHexes, emptyHexes, unclaimed, territories, frontiers,
                   iterations, order, seeds>>

\* the claim that leaves the hex in the unclaimed pool
ClaimKeepsPool(i, chosenKey) ==
    LET grown == addHexToTerritory(territories[i], parseHexKey(chosenKey))
    IN /\ territories' = [territories EXCEPT ![i] = grown]
       /\ unclaimed' = unclaimed
       /\ frontiers' = [frontiers EXCEPT
                           ![i] = updateFrontier(grown, frontiers[i] \ {chosenKey},
                                                 unclaimed, validHexKeys)]

\* lines 92-98: territory i claims chosenKey
Claim(i, chosenKey) ==
    LET grown == addHexToTerritory(territories[i], parseHexKey(chosenKey))
        pool == SeqFilterOut(unclaimed, {chosenKey})
    IN /\ territories' = [territories EXCEPT ![i] = grown]
       /\ unclaimed' = pool
       /\ frontiers' = [frontiers EXCEPT
                           ![i] = updateFrontier(grown, frontiers[i] \ {chosenKey},
                                                 pool, validHexKeys)]

\* the frontier hex taken from another random source than the draw handed in
\* a stale draw that refreshes the whole frontier instead of dropping one key
GrowStepStaleRefresh(i, chosenKey) ==
    /\ IF chosenKey \notin Range(unclaimed)
       THEN /\ frontiers' = [frontiers EXCEPT
                                ![i] = updateFrontier(territories[i],
                                                      frontiers[i] \ {chosenKey},
                                                      unclaimed, validHexKeys)]
            /\ UNCHANGED <<territories, unclaimed>>
       ELSE Claim(i, chosenKey)
    /\ order' = Tail(order)
    /\ UNCHANGED <<gameVars, pc, config, allHexes, emptyHexes, iterations, seeds>>

GrowStepIgnoresDraw(i, chosenKey) ==
    \E k \in frontiers[i] :
        /\ IF k \notin Range(unclaimed)
           THEN /\ frontiers' = [frontiers EXCEPT ![i] = frontiers[i] \ {k}]
                /\ UNCHANGED <<territories, unclaimed>>
           ELSE Claim(i, k)
        /\ order' = Tail(order)
        /\ UNCHANGED <<gameVars, pc, config, allHexes, emptyHexes, iterations, seeds>>

\* lines 83-98: the body of the for loop once a frontier hex is drawn
GrowStepWith(i, chosenKey) ==
    /\ IF chosenKey \notin Range(unclaimed)
       THEN /\ frontiers' = [frontiers EXCEPT ![i] = frontiers[i] \ {chosenKey}]
            /\ UNCHANGED <<territories, unclaimed>>
       ELSE Claim(i, chosenKey)
    /\ order' = Tail(order)
    /\ UNCHANGED <<gameVars, pc, config, allHexes, emptyHexes, iterations, seeds>>

\* lines 79-82: the two continue conditions
Skipped(i) == Size(territories[i]) >= config.maxTerritorySize \/ frontiers[i] = {}

Continue ==
    /\ order' = Tail(order)
    /\ UNCHANGED <<gameVars, pc, config, allHexes, emptyHexes, unclaimed, territories,
                   frontiers, iterations, seeds>>

\* lines 77-99: one pass of the for loop body, for the next index of order
GrowStep ==
    /\ pc = "round"
    /\ order # <<>>
    /\ LET i == Head(order)
       IN IF Skipped(i) THEN Continue
          ELSE \E chosenKey \in frontiers[i] : GrowStepWith(i, chosenKey)

\* lines 100-103: the end of a round
EndRound ==
    /\ pc = "round"
    /\ order = <<>>
    /\ pc' = IF allMaxed THEN "assign" ELSE "loop"
    /\ UNCHANGED <<gameVars, config, allHexes, emptyHexes, unclaimed, territories, frontiers,
                   iterations, order, seeds>>

(***************************************************************************)
(* reduce((a, b) => a.size <= b.size ? a : b) over territory positions, and *)
(* reduce((a, b) => a.size >= b.size ? a : b) over components.             *)
(***************************************************************************)
RECURSIVE ReduceSmallest(_, _, _)
ReduceSmallest(ts, a, rest) ==
    IF rest = <<>> THEN a
    ELSE ReduceSmallest(ts, IF Size(ts[a]) <= Size(ts[Head(rest)]) THEN a ELSE Head(rest),
                        Tail(rest))

\* the reduce over components with > in place of >=: the last largest wins
RECURSIVE ReduceLargestLastWins(_, _)
ReduceLargestLastWins(a, rest) ==
    IF rest = <<>> THEN a
    ELSE ReduceLargestLastWins(IF Cardinality(a) > Cardinality(Head(rest)) THEN a
                               ELSE Head(rest),
                               Tail(rest))

RECURSIVE ReduceLargest(_, _)
ReduceLargest(a, rest) ==
    IF rest = <<>> THEN a
    ELSE ReduceLargest(IF Cardinality(a) >= Cardinality(Head(rest)) THEN a ELSE Head(rest),
                       Tail(rest))

\* the positions of the territories holding key; a Map built by set() in
\* array order keeps the last one
Holders(ts, key) == {i \in 1..Len(ts) : key \in Range(ts[i].hexes)}

LastHolder(ts, key) == CHOOSE i \in Holders(ts, key) : \A j \in Holders(ts, key) : j <= i

RECURSIVE SeqKeep(_, _)
SeqKeep(s, keep) ==
    IF s = <<>> THEN <<>>
    ELSE IF Head(s) \in keep THEN <<Head(s)>> \o SeqKeep(Tail(s), keep)
    ELSE SeqKeep(Tail(s), keep)

(***************************************************************************)
(* assignUnclaimedHexes(territories, unclaimed, emptyHexes, maxSize)       *)
(* The state of its loop is the territories, the hexToTerritory map (hex   *)
(* key -> position of the territory object) and emptyHexes.                *)
(***************************************************************************)
InitialHexToTerritory(ts) ==
    [k \in UNION {Range(ts[i].hexes) : i \in 1..Len(ts)} |-> LastHolder(ts, k)]

\* the eligible territories without the test territory.hexes.size < maxSize
eligibleTerritoriesAnySize(ts, hexToTerritory, key, maxSize) ==
    LET nk == NeighborKeys(key)
        ok == {d \in 1..6 : nk[d] \in DOMAIN hexToTerritory}
    IN [j \in 1..Cardinality(ok) |->
           hexToTerritory[nk[CHOOSE d \in ok : Cardinality({e \in ok : e < d}) = j - 1]]]

\* lines 200-207: the eligible territories, in neighbour-direction order
eligibleTerritories(ts, hexToTerritory, key, maxSize) ==
    LET nk == NeighborKeys(key)
        ok == {d \in 1..6 : /\ nk[d] \in DOMAIN hexToTerritory
                            /\ Size(ts[hexToTerritory[nk[d]]]) < maxSize}
    IN [j \in 1..Cardinality(ok) |->
           hexToTerritory[nk[CHOOSE d \in ok : Cardinality({e \in ok : e < d}) = j - 1]]]

\* the resolver without its emptyHexes.add branch
AssignOneNoFallback(st, key, maxSize) ==
    LET eligible == eligibleTerritories(st.ts, st.map, key, maxSize)
    IN IF Len(eligible) > 0
       THEN LET smallest == ReduceSmallest(st.ts, Head(eligible), Tail(eligible))
            IN [ts |-> [st.ts EXCEPT ![smallest].hexes = SetAdd(@, key)],
                map |-> [k \in DOMAIN st.map \cup {key} |->
                            IF k = key THEN smallest ELSE st.map[k]],
                empty |-> st.empty]
       ELSE st

\* lines 196-218 for one unclaimed hex
AssignOne(st, key, maxSize) ==
    LET eligible == eligibleTerritories(st.ts, st.map, key, maxSize)
    IN IF Len(eligible) > 0
       THEN LET smallest == ReduceSmallest(st.ts, Head(eligible), Tail(eligible))
            IN [ts |-> [st.ts EXCEPT ![smallest].hexes = SetAdd(@, key)],
                map |-> [k \in DOMAIN st.map \cup {key} |->
                            IF k = key THEN smallest ELSE st.map[k]],
                empty |-> st.empty]
       ELSE [st EXCEPT !.empty = @ \cup {key}]

RECURSIVE AssignLoop(_, _, _)
AssignLoop(st, keys, maxSize) ==
    IF keys = <<>> THEN st
    ELSE AssignLoop(AssignOne(st, Head(keys), maxSize), Tail(keys), maxSize)

\* generateMap without the resolver pass
assignUnclaimedHexesSkipped(ts, uncl, empty, maxSize) == [ts |-> ts, empty |-> empty]

assignUnclaimedHexes(ts, uncl, empty, maxSize) ==
    IF Len(uncl) = 0 THEN [ts |-> ts, empty |-> empty]
    ELSE LET r == AssignLoop([ts |-> ts, map |-> InitialHexToTerritory(ts), empty |-> empty],
                             uncl, maxSize)
         IN [ts |-> r.ts, empty |-> r.empty]

\* generateMap line 106
AssignUnclaimed ==
    /\ pc = "assign"
    /\ LET r == assignUnclaimedHexes(territories, unclaimed, emptyHexes,
                                     config.maxTerritorySize)
       IN /\ territories' = r.ts
          /\ emptyHexes' = r.empty
    /\ pc' = "cleanup"
    /\ UNCHANGED <<gameVars, config, allHexes, unclaimed, frontiers, iterations, order, seeds>>

(***************************************************************************)
(* calculateTerritoryNeighbors(territories), territory.ts lines 63-94.     *)
(* hexToTerritory maps a hex key to the id of the last territory of the    *)
(* array that holds it.                                                    *)
(***************************************************************************)
HexToTerritoryId(ts) ==
    [k \in UNION {Range(ts[i].hexes) : i \in 1..Len(ts)} |-> ts[LastHolder(ts, k)].id]

\* the neighbour scan recording only the territories of a greater id
RECURSIVE ScanDirectionsOneWay(_, _, _, _, _)
ScanDirectionsOneWay(idOf, ownId, nk, d, acc) ==
    IF d > 6 THEN acc
    ELSE IF nk[d] \in DOMAIN idOf /\ idOf[nk[d]] > ownId /\ idOf[nk[d]] \notin Range(acc)
    THEN ScanDirectionsOneWay(idOf, ownId, nk, d + 1, Append(acc, idOf[nk[d]]))
    ELSE ScanDirectionsOneWay(idOf, ownId, nk, d + 1, acc)

\* lines 84-91 for one hex of a territory: acc is territory.neighbors so far
RECURSIVE ScanDirections(_, _, _, _, _)
ScanDirections(idOf, ownId, nk, d, acc) ==
    IF d > 6 THEN acc
    ELSE IF nk[d] \in DOMAIN idOf /\ idOf[nk[d]] # ownId /\ idOf[nk[d]] \notin Range(acc)
    THEN ScanDirections(idOf, ownId, nk, d + 1, Append(acc, idOf[nk[d]]))
    ELSE ScanDirections(idOf, ownId, nk, d + 1, acc)

\* lines 80-92 for one territory
RECURSIVE ScanHexes(_, _, _, _)
ScanHexes(idOf, ownId, hexes, acc) ==
    IF hexes = <<>> THEN acc
    ELSE ScanHexes(idOf, ownId, Tail(hexes),
                   ScanDirections(idOf, ownId, NeighborKeys(Head(hexes)), 1, acc))

\* the neighbour sets patched: the scan starts from the old set, not from
\* an empty one (territory.ts lines 73-76 left out)
calculateTerritoryNeighborsPatched(ts) ==
    LET idOf == HexToTerritoryId(ts)
    IN [i \in 1..Len(ts) |->
           [ts[i] EXCEPT !.neighbors = ScanHexes(idOf, ts[i].id, ts[i].hexes, ts[i].neighbors)]]

calculateTerritoryNeighbors(ts) ==
    LET idOf == HexToTerritoryId(ts)
    IN [i \in 1..Len(ts) |->
           [ts[i] EXCEPT !.neighbors = ScanHexes(idOf, ts[i].id, ts[i].hexes, <<>>)]]

(***************************************************************************)
(* cleanupTerritories(territories, minSize, maxSize)                       *)
(***************************************************************************)
\* territories.find(t => t.id === id): the first position with that id, 0 if none
FindById(ts, id) ==
    IF \E j \in 1..Len(ts) : ts[j].id = id
    THEN CHOOSE j \in 1..Len(ts) : ts[j].id = id /\ \A m \in 1..(j - 1) : ts[m].id # id
    ELSE 0

\* the merge candidates without the size test of line 234
MergeCandidatesAnySize(ts, i, maxSize) ==
    LET found == [j \in 1..Len(ts[i].neighbors) |-> FindById(ts, ts[i].neighbors[j])]
    IN SeqKeep(found, {p \in Range(found) : p # 0})

\* lines 232-235: the neighbours that can take the territory at position i
MergeCandidates(ts, i, maxSize) ==
    LET found == [j \in 1..Len(ts[i].neighbors) |-> FindById(ts, ts[i].neighbors[j])]
    IN SeqKeep(found, {p \in Range(found) :
                          p # 0 /\ Size(ts[p]) + Size(ts[i]) <= maxSize})

RECURSIVE AddAll(_, _)
AddAll(hexes, more) ==
    IF more = <<>> THEN hexes
    ELSE IF Head(more) \in Range(hexes) THEN AddAll(hexes, Tail(more))
    ELSE AddAll(Append(hexes, Head(more)), Tail(more))

\* lines 228-246 for the territory at position i
MergeOne(ts, i, minSize, maxSize) ==
    IF Size(ts[i]) < minSize /\ Size(ts[i]) > 0 /\ Len(ts[i].neighbors) > 0
    THEN LET candidates == MergeCandidates(ts, i, maxSize)
         IN IF Len(candidates) > 0
            THEN LET smallest == ReduceSmallest(ts, Head(candidates), Tail(candidates))
                 IN [ts EXCEPT ![smallest].hexes = AddAll(@, ts[i].hexes),
                               ![i].hexes = <<>>]
            ELSE ts
    ELSE ts

RECURSIVE MergeLoop(_, _, _, _)
MergeLoop(ts, i, minSize, maxSize) ==
    IF i > Len(ts) THEN ts
    ELSE MergeLoop(MergeOne(ts, i, minSize, maxSize), i + 1, minSize, maxSize)

\* the ids renumbered, the display names left as they were
RenumberIdsOnly(ts) ==
    LET nonEmpty == SeqKeep(ts, {t \in Range(ts) : Size(t) > 0})
    IN [i \in 1..Len(nonEmpty) |-> [nonEmpty[i] EXCEPT !.id = i - 1]]

\* the empty territories dropped, the ids left as they were
RemoveEmptyKeepIds(ts) == SeqKeep(ts, {t \in Range(ts) : Size(t) > 0})

\* the territories renumbered, the empty ones kept
RenumberKeepEmpty(ts) == [i \in 1..Len(ts) |-> [ts[i] EXCEPT !.id = i - 1, !.name = i]]

\* lines 249-256 and 317-324: drop the empty territories and renumber
RemoveEmptyAndRenumber(ts) ==
    LET nonEmpty == SeqKeep(ts, {t \in Range(ts) : Size(t) > 0})
    IN [i \in 1..Len(nonEmpty) |-> [nonEmpty[i] EXCEPT !.id = i - 1, !.name = i]]

cleanupTerritories(ts, minSize, maxSize) ==
    calculateTerritoryNeighbors(
        RemoveEmptyAndRenumber(
            MergeLoop(calculateTerritoryNeighbors(ts), 1, minSize, maxSize)))

\* generateMap line 108
Cleanup ==
    /\ pc = "cleanup"
    /\ territories' = cleanupTerritories(territories, config.minTerritorySize,
                                         config.maxTerritorySize)
    /\ pc' = "isolated"
    /\ UNCHANGED <<gameVars, config, allHexes, emptyHexes, unclaimed, frontiers, iterations,
                   order, seeds>>

(***************************************************************************)
(* removeIsolatedTerritories(territories, emptyHexes)                      *)
(***************************************************************************)
\* lines 268-273: all territory hexes, in insertion order
RECURSIVE AllTerritoryHexes(_, _)
AllTerritoryHexes(ts, acc) ==
    IF ts = <<>> THEN acc ELSE AllTerritoryHexes(Tail(ts), AddAll(acc, Head(ts).hexes))

\* lines 289-295: the neighbours of the dequeued hex that join the queue
RECURSIVE Enqueue(_, _, _, _, _)
Enqueue(nk, d, land, visited, queue) ==
    IF d > 6 THEN [visited |-> visited, queue |-> queue]
    ELSE IF nk[d] \notin visited /\ nk[d] \in land
         THEN Enqueue(nk, d + 1, land, visited \cup {nk[d]}, Append(queue, nk[d]))
         ELSE Enqueue(nk, d + 1, land, visited, queue)

\* lines 284-296: the breadth-first search from one start hex
RECURSIVE Bfs(_, _, _, _)
Bfs(land, visited, queue, component) ==
    IF queue = <<>> THEN [visited |-> visited, component |-> component]
    ELSE LET e == Enqueue(NeighborKeys(Head(queue)), 1, land, visited, Tail(queue))
         IN Bfs(land, e.visited, e.queue, component \cup {Head(queue)})

\* lines 277-298: the components, in order of discovery
RECURSIVE Components(_, _, _, _)
Components(land, starts, visited, found) ==
    IF starts = <<>> THEN found
    ELSE IF Head(starts) \in visited THEN Components(land, Tail(starts), visited, found)
    ELSE LET b == Bfs(land, visited \cup {Head(starts)}, <<Head(starts)>>, {})
         IN Components(land, Tail(starts), b.visited, Append(found, b.component))

\* lines 304-315: every hex outside the largest component leaves its territory
KeepComponent(ts, largestComponent) ==
    [i \in 1..Len(ts) |-> [ts[i] EXCEPT !.hexes = SeqKeep(@, largestComponent)]]

\* generateMap without the isolated-territory pass
removeIsolatedTerritoriesSkipped(ts, empty) == [ts |-> ts, empty |-> empty]

removeIsolatedTerritories(ts, empty) ==
    IF Len(ts) <= 1 THEN [ts |-> ts, empty |-> empty]
    ELSE LET allTerritoryHexes == AllTerritoryHexes(ts, <<>>)
             components == Components(Range(allTerritoryHexes), allTerritoryHexes, {}, <<>>)
         IN IF Len(components) <= 1 THEN [ts |-> ts, empty |-> empty]
            ELSE LET largestComponent == ReduceLargest(Head(components), Tail(components))
                 IN [ts |-> RemoveEmptyAndRenumber(KeepComponent(ts, largestComponent)),
                     empty |-> empty \cup (Range(allTerritoryHexes) \ largestComponent)]

\* generateMap line 110
RemoveIsolated ==
    /\ pc = "isolated"
    /\ LET r == removeIsolatedTerritories(territories, emptyHexes)
       IN /\ territories' = r.ts
          /\ emptyHexes' = r.empty
    /\ pc' = "neighbors"
    /\ UNCHANGED <<gameVars, config, allHexes, unclaimed, frontiers, iterations, order, seeds>>

\* generateMap lines 112-118: the neighbour sets, then the map is returned
CalculateNeighbors ==
    /\ pc = "neighbors"
    /\ territories' = calculateTerritoryNeighbors(territories)
    /\ pc' = "done"
    /\ UNCHANGED <<gameVars, config, allHexes, emptyHexes, unclaimed, frontiers, iterations,
                   order, seeds>>

Next ==
    \/ SelectBlocked
    \/ SeedTerritories
    \/ BeginRound
    \/ GrowStep
    \/ EndRound
    \/ ExitLoop
    \/ AssignUnclaimed
    \/ Cleanup
    \/ RemoveIsolated
    \/ CalculateNeighbors

Spec == Init /\ [][Next]_vars

(***************************************************************************)
(* generateMap on the 6x6 board with four territories, sizes 3 to 12 and   *)
(* no blocked tiles.  The first rounds of the growth loop replay one       *)
(* sequence of outcomes of Math.random: the shuffle of the seed            *)
(* candidates, the territory order of each round and the frontier hex      *)
(* drawn at each step.  Every later draw is unconstrained.                 *)
(***************************************************************************)
ScenarioConfig ==
    [gridWidth |-> 6, gridHeight |-> 6, territoryCount |-> 4,
     minTerritorySize |-> 3, maxTerritorySize |-> 12, emptyTilePercent |-> 0]

ScenarioShuffled ==
    <<<<2, 0>>, <<1, 4>>, <<-2, 4>>, <<3, 3>>, <<0, 5>>, <<-1, 2>>,
      <<1, 3>>, <<2, 1>>, <<1, 5>>, <<2, 4>>, <<4, 1>>, <<-1, 5>>,
      <<3, 5>>, <<0, 4>>, <<2, 5>>, <<3, 2>>, <<0, 3>>, <<5, 1>>,
      <<2, 3>>, <<1, 0>>, <<0, 1>>, <<2, 2>>, <<4, 3>>, <<3, 1>>,
      <<4, 2>>, <<-1, 4>>, <<0, 2>>, <<4, 0>>, <<-2, 5>>, <<3, 0>>,
      <<0, 0>>, <<1, 1>>, <<5, 0>>, <<3, 4>>, <<-1, 3>>, <<1, 2>>>>

ScenarioOrders ==
    <<<<3, 1, 2, 4>>,
      <<1, 3, 2, 4>>,
      <<1, 4, 2, 3>>,
      <<4, 2, 3, 1>>,
      <<4, 3, 2, 1>>,
      <<2, 4, 1, 3>>,
      <<2, 4, 1, 3>>>>

ScenarioPicks ==
    <<<<<<"1", ",", "1">>, <<"0", ",", "4">>, <<"-", "1", ",", "3">>, <<"5", ",", "0">>>>,
      <<<<"0", ",", "1">>, <<"0", ",", "5">>, <<"0", ",", "1">>, <<"4", ",", "0">>>>,
      <<<<"0", ",", "0">>, <<"2", ",", "3">>, <<"0", ",", "2">>, <<"4", ",", "1">>>>,
      <<<<"3", ",", "0">>, <<"2", ",", "2">>, <<"-", "2", ",", "4">>, <<"3", ",", "1">>>>,
      <<<<"1", ",", "0">>, <<"-", "1", ",", "4">>, <<"0", ",", "3">>, <<"2", ",", "1">>>>,
      <<<<"1", ",", "2">>, <<"3", ",", "2">>, <<"1", ",", "2">>, <<"1", ",", "2">>>>,
      <<<<>>, <<"1", ",", "5">>, <<"-", "2", ",", "5">>, <<"1", ",", "3">>>>>>

ScenarioInit == Started(ScenarioConfig)

ScenarioSeedTerritories ==
    /\ pc = "seed"
    /\ LET availableForSeeds ==
               SeqFilterOut(allHexes, {h \in Range(allHexes) : hexKey(h) \in emptyHexes})
       IN /\ Len(ScenarioShuffled) = Len(availableForSeeds)
          /\ Range(ScenarioShuffled) = Range(availableForSeeds)
          /\ SeedTerritoriesWith(ScenarioShuffled)

ScenarioBeginRound ==
    /\ pc = "loop"
    /\ Len(unclaimed) > 0 /\ iterations < maxIterations
    /\ \E shuffledOrder \in shuffleArray([i \in 1..Len(territories) |-> i]) :
           /\ iterations < Len(ScenarioOrders) => shuffledOrder = ScenarioOrders[iterations + 1]
           /\ BeginRoundWith(shuffledOrder)

ScenarioGrowStep ==
    /\ pc = "round"
    /\ order # <<>>
    /\ LET i == Head(order)
       IN IF Skipped(i) THEN Continue
          ELSE \E chosenKey \in frontiers[i] :
                   /\ iterations <= Len(ScenarioPicks) => chosenKey = ScenarioPicks[iterations][i]
                   /\ GrowStepWith(i, chosenKey)

ScenarioNext ==
    \/ SelectBlocked
    \/ ScenarioSeedTerritories
    \/ ScenarioBeginRound
    \/ ScenarioGrowStep
    \/ EndRound
    \/ ExitLoop
    \/ AssignUnclaimed
    \/ Cleanup
    \/ RemoveIsolated
    \/ CalculateNeighbors

SpecScenario == ScenarioInit /\ [][ScenarioNext]_vars

(***************************************************************************)
(* generateMap replayed on recorded outcomes of Math.random.  A replay     *)
(* gives, for one configuration, every random outcome of one run: the      *)
(* hexes the blocked-tile shuffle put first, the shuffle of the seed       *)
(* candidates, the territory order of each round and the frontier hex      *)
(* drawn by each territory in each round (<<>> where the territory drew    *)
(* nothing; rounds after the last listed row draw nothing).                *)
(***************************************************************************)
Replays ==
  <<[config |->
           [gridWidth |-> 4, gridHeight |-> 3, territoryCount |-> 4,
            minTerritorySize |-> 2, maxTerritorySize |-> 4, emptyTilePercent |-> 30],
      blocked |-> <<<<1, 1>>, <<1, 2>>, <<1, 0>>>>,
      shuffled |->
          <<<<0, 1>>, <<0, 0>>, <<-1, 2>>, <<2, 0>>, <<0, 2>>, <<3, 1>>,
            <<2, 2>>, <<2, 1>>, <<3, 0>>>>,
      orders |->
          <<<<2, 1, 3, 4>>, <<4, 3, 2, 1>>, <<3, 4, 1, 2>>, <<3, 2, 1, 4>>,
            <<2, 1, 3, 4>>, <<3, 4, 1, 2>>, <<4, 1, 3, 2>>, <<2, 1, 3, 4>>,
            <<1, 2, 4, 3>>, <<3, 4, 1, 2>>, <<4, 3, 2, 1>>, <<4, 2, 1, 3>>,
            <<2, 3, 1, 4>>, <<3, 1, 2, 4>>, <<2, 4, 3, 1>>, <<3, 4, 1, 2>>,
            <<2, 4, 1, 3>>, <<2, 1, 3, 4>>, <<2, 1, 4, 3>>, <<1, 2, 4, 3>>,
            <<4, 3, 1, 2>>, <<2, 3, 4, 1>>, <<1, 3, 2, 4>>, <<2, 1, 3, 4>>>>,
      picks |->
          <<<<<<0, 2>>, <<3, 1>>, <<>>, <<0, 2>>>>,
            <<<<>>, <<2, 1>>, <<>>, <<>>>>,
            <<<<>>, <<2, 0>>, <<>>, <<>>>>>>],
     [config |->
           [gridWidth |-> 4, gridHeight |-> 4, territoryCount |-> 3,
            minTerritorySize |-> 2, maxTerritorySize |-> 8, emptyTilePercent |-> 20],
      blocked |-> <<<<1, 0>>, <<0, 3>>, <<0, 2>>>>,
      shuffled |->
          <<<<1, 3>>, <<3, 1>>, <<1, 1>>, <<-1, 2>>, <<2, 0>>, <<2, 1>>,
            <<0, 1>>, <<1, 2>>, <<0, 0>>, <<2, 3>>, <<-1, 3>>, <<3, 0>>,
            <<2, 2>>>>,
      orders |->
          <<<<2, 3, 1>>, <<2, 3, 1>>, <<1, 3, 2>>, <<2, 1, 3>>,
            <<1, 2, 3>>>>,
      picks |->
          <<<<<<2, 3>>, <<2, 1>>, <<0, 1>>>>,
            <<<<1, 2>>, <<2, 2>>, <<1, 1>>>>,
            <<<<>>, <<1, 2>>, <<-1, 2>>>>,
            <<<<>>, <<3, 0>>, <<-1, 3>>>>,
            <<<<>>, <<2, 0>>, <<2, 0>>>>>>],
     [config |->
           [gridWidth |-> 5, gridHeight |-> 3, territoryCount |-> 4,
            minTerritorySize |-> 1, maxTerritorySize |-> 3, emptyTilePercent |-> 0],
      blocked |-> <<>>,
      shuffled |->
          <<<<2, 2>>, <<1, 0>>, <<0, 0>>, <<3, 1>>, <<4, 1>>, <<1, 1>>,
            <<0, 2>>, <<2, 0>>, <<2, 1>>, <<4, 0>>, <<3, 2>>, <<3, 0>>,
            <<0, 1>>, <<-1, 2>>, <<1, 2>>>>,
      orders |->
          <<<<4, 2, 1, 3>>, <<1, 2, 4, 3>>>>,
      picks |->
          <<<<<<1, 2>>, <<0, 1>>, <<3, 0>>, <<1, 1>>>>,
            <<<<3, 1>>, <<-1, 2>>, <<2, 0>>, <<2, 1>>>>>>]>>

ReplayOf(c) == CHOOSE k \in 1..Len(Replays) : Replays[k].config = c

Replay == Replays[ReplayOf(config)]

ReplayInit == \E k \in 1..Len(Replays) : Started(Replays[k].config)

ReplaySelectBlocked ==
    /\ pc = "start"
    /\ LET grid == generateHexGrid(config.gridWidth, config.gridHeight)
           count == emptyCount(Len(grid))
       IN /\ Replay.blocked \in Arrangements(grid, Min2(count, Len(grid)))
          /\ SelectBlockedWith(grid, Replay.blocked)

ReplaySeedTerritories ==
    /\ pc = "seed"
    /\ LET availableForSeeds ==
               SeqFilterOut(allHexes, {h \in Range(allHexes) : hexKey(h) \in emptyHexes})
       IN /\ Len(Replay.shuffled) = Len(availableForSeeds)
          /\ Range(Replay.shuffled) = Range(availableForSeeds)
          /\ SeedTerritoriesWith(Replay.shuffled)

ReplayBeginRound ==
    /\ pc = "loop"
    /\ Len(unclaimed) > 0 /\ iterations < maxIterations
    /\ iterations < Len(Replay.orders)
    /\ Range(Replay.orders[iterations + 1]) = 1..Len(territories)
    /\ Len(Replay.orders[iterations + 1]) = Len(territories)
    /\ BeginRoundWith(Replay.orders[iterations + 1])

ReplayGrowStep ==
    /\ pc = "round"
    /\ order # <<>>
    /\ LET i == Head(order)
       IN IF Skipped(i) THEN Continue
          ELSE /\ iterations <= Len(Replay.picks)
               /\ Replay.picks[iterations][i] # <<>>
               /\ hexKey(Replay.picks[iterations][i]) \in frontiers[i]
               /\ GrowStepWith(i, hexKey(Replay.picks[iterations][i]))

ReplayNext ==
    \/ ReplaySelectBlocked
    \/ ReplaySeedTerritories
    \/ ReplayBeginRound
    \/ ReplayGrowStep
    \/ EndRound
    \/ ExitLoop
    \/ AssignUnclaimed
    \/ Cleanup
    \/ RemoveIsolated
    \/ CalculateNeighbors

SpecReplay == ReplayInit /\ [][ReplayNext]_vars

(***************************************************************************)
(* Vocabulary of the properties: stated on hex coordinates, apart from     *)
(* the passes above.                                                       *)
(***************************************************************************)
Returned == pc = "done"

GridKeys == {hexKey(allHexes[i]) : i \in 1..Len(allHexes)}

TerritoryKeys(i) == Range(territories[i].hexes)

LandKeys == UNION {TerritoryKeys(i) : i \in 1..Len(territories)}

OwnersOf(k) == {i \in 1..Len(territories) : k \in TerritoryKeys(i)}

AdjacentKeys(a, b) ==
    LET ha == parseHexKey(a)
        hb == parseHexKey(b)
    IN <<hb[1] - ha[1], hb[2] - ha[2]>> \in Range(DIRECTIONS)

RECURSIVE ReachableIn(_, _)
ReachableIn(S, R) ==
    LET more == {k \in S \ R : \E x \in R : AdjacentKeys(x, k)}
    IN IF more = {} THEN R ELSE ReachableIn(S, R \cup more)

IsConnected(S) == S = {} \/ ReachableIn(S, {CHOOSE k \in S : TRUE}) = S

\* the number of connected components of a set of hex keys
RECURSIVE ComponentCount(_)
ComponentCount(S) ==
    IF S = {} THEN 0
    ELSE 1 + ComponentCount(S \ ReachableIn(S, {CHOOSE k \in S : TRUE}))

ClampTo50(p) == IF p < 0 THEN 0 ELSE IF p > 50 THEN 50 ELSE p

SeedKeys == {hexKey(seeds[i]) : i \in 1..Len(seeds)}

\* the connectivity pass has removed a seeded hex from the land
IsolatedSeedRemoved == SeedKeys \cap emptyHexes # {}

\* the unclaimed-tile resolver has turned a hex of the pool into a blocked tile
ResolverBlockedSome == Range(unclaimed) \cap emptyHexes # {}

(***************************************************************************)
(* C1: in the returned map every grid hex is in exactly one territory or   *)
(* in emptyHexes, never both, never neither; no territory or emptyHexes    *)
(* holds anything else; |allHexes| = sum of territory sizes + |emptyHexes|.*)
(***************************************************************************)
C1_ExactPartition ==
    Returned =>
        /\ \A k \in GridKeys :
               \/ Cardinality(OwnersOf(k)) = 1 /\ k \notin emptyHexes
               \/ OwnersOf(k) = {} /\ k \in emptyHexes
        /\ LandKeys \cup emptyHexes \subseteq GridKeys
        /\ Len(allHexes) = SumSeq([i \in 1..Len(territories) |-> Size(territories[i])])
                           + Cardinality(emptyHexes)

C1_Witness ==
    /\ Returned
    /\ Len(territories) >= 2
    /\ ResolverBlockedSome
    /\ \E i \in 1..Len(territories) : Size(territories[i]) >= 2

(***************************************************************************)
(* C2: in the returned map the hex set of every territory is connected     *)
(* under hex adjacency.                                                    *)
(***************************************************************************)
C2_EveryTerritoryConnected ==
    Returned => \A i \in 1..Len(territories) : IsConnected(TerritoryKeys(i))

(***************************************************************************)
(* C3 as stated: the union of the returned territories' hexes forms        *)
(* exactly one connected component.                                        *)
(***************************************************************************)
C3_ExactlyOneLandmass == Returned => ComponentCount(LandKeys) = 1

(***************************************************************************)
(* C3 amended: the union of the returned territories' hexes forms at most  *)
(* one connected component, and exactly one when a territory is returned.  *)
(***************************************************************************)
C3_SingleLandmass ==
    Returned =>
        /\ ComponentCount(LandKeys) <= 1
        /\ Len(territories) >= 1 => ComponentCount(LandKeys) = 1

C3_Witness ==
    /\ Returned
    /\ Len(territories) >= 2
    /\ IsolatedSeedRemoved

(***************************************************************************)
(* C4: in the returned map B.id is in A.neighbors iff A.id is in           *)
(* B.neighbors, for all territories A and B.                               *)
(***************************************************************************)
C4_NeighborsSymmetric ==
    Returned =>
        \A a, b \in 1..Len(territories) :
            territories[b].id \in Range(territories[a].neighbors)
                <=> territories[a].id \in Range(territories[b].neighbors)

C4_Witness ==
    /\ Returned
    /\ Len(territories) >= 3
    /\ \E a \in 1..Len(territories) : Len(territories[a].neighbors) >= 2
    /\ \E a, b \in 1..Len(territories) :
           a # b /\ territories[b].id \notin Range(territories[a].neighbors)

(***************************************************************************)
(* C5: the ids of the N returned territories are exactly 0..N-1, each      *)
(* used once, whether or not the connectivity pass removed anything.       *)
(***************************************************************************)
C5_DenseIds ==
    Returned =>
        /\ {territories[i].id : i \in 1..Len(territories)} = 0..(Len(territories) - 1)
        /\ \A i, j \in 1..Len(territories) :
               territories[i].id = territories[j].id => i = j

C5_Witness ==
    /\ Returned
    /\ IsolatedSeedRemoved
    /\ Len(territories) >= 2
    /\ Len(territories) < Len(seeds)

C8_TerritoryCountBounded ==
    Returned =>
        /\ Len(territories) <= config.territoryCount
        /\ Len(territories) <= Len(allHexes) - Cardinality(emptyHexes)
        /\ Len(territories) <= Len(allHexes) - (Len(allHexes) * ClampTo50(config.emptyTilePercent)) \div 100
        /\ \A k \in GridKeys : OwnersOf(k) # {} \/ k \in emptyHexes

C8_Witness ==
    /\ Returned
    /\ config.territoryCount > Len(allHexes)
    /\ Len(territories) >= 2

(***************************************************************************)
(* C9: generateMap never throws: it is always at a step of the pipeline    *)
(* with every index it uses defined and the round counter within the       *)
(* iteration budget, so that it returns; for a zero-size grid it returns   *)
(* no hexes, no blocked tiles and no territories.                          *)
(***************************************************************************)
C9_AlwaysReturns ==
    /\ pc # "error"
    /\ pc \in {"start", "seed", "loop", "round", "assign", "cleanup", "isolated",
               "neighbors", "done"}
    /\ iterations <= maxIterations
    /\ pc \in {"loop", "round"} =>
           /\ Len(frontiers) = Len(territories)
           /\ \A k \in 1..Len(order) : order[k] \in 1..Len(territories)
    /\ (Returned /\ config.gridWidth * config.gridHeight = 0) =>
           allHexes = <<>> /\ emptyHexes = {} /\ territories = <<>>

C9_Witness ==
    /\ Returned
    /\ config.gridWidth * config.gridHeight = 0
    /\ config.territoryCount > 0

\* the same for a territoryCount above the number of free tiles
C9_WitnessOverSubscribed ==
    /\ Returned
    /\ config.territoryCount > Len(allHexes)
    /\ Len(allHexes) > 0

(***************************************************************************)
(* C10: right after the blocked-tile selection emptyHexes holds exactly    *)
(* floor(total * p / 100) grid hexes, p = emptyTilePercent clamped to      *)
(* [0, 50], total = gridWidth * gridHeight.                                *)
(***************************************************************************)
C10_BlockedCount ==
    pc = "seed" =>
        /\ Cardinality(emptyHexes) =
               (config.gridWidth * config.gridHeight
                    * ClampTo50(config.emptyTilePercent)) \div 100
        /\ emptyHexes \subseteq GridKeys

C10_Witness ==
    /\ pc = "seed"
    /\ config.emptyTilePercent = 200
    /\ Cardinality(emptyHexes) = 3

(***************************************************************************)
(* C11: the blocked set only grows.  No step removes a hex from            *)
(* emptyHexes, no step leaves a blocked hex inside a territory, and the    *)
(* returned emptyHexes has at least the number of hexes selected at the    *)
(* start.                                                                  *)
(***************************************************************************)
C11_BlockedOnlyGrows ==
    /\ [][/\ emptyHexes \subseteq emptyHexes'
          /\ emptyHexes' \cap UNION {Range(territories'[i].hexes) :
                                         i \in 1..Len(territories')} = {}]_vars
    /\ [](Returned => Cardinality(emptyHexes) >= emptyCount(Len(allHexes)))

\* a returned map whose blocked set holds the tiles selected at the start
\* and more, added by the resolver and by the connectivity pass
C11_Witness ==
    /\ Returned
    /\ emptyCount(Len(allHexes)) > 0
    /\ Cardinality(emptyHexes) > emptyCount(Len(allHexes))
    /\ Len(territories) >= 1

(***************************************************************************)
(* C12: generation is a function of the configuration and of the random    *)
(* draws.  Every run of generateMap that is given the configuration and    *)
(* the draws of a replay returns one and the same map: the territories     *)
(* (ids, hex sets in insertion order, neighbor sets), allHexes and         *)
(* emptyHexes listed for that replay.                                      *)
(***************************************************************************)
ReplayOutputs ==
  <<[territories |->
          <<[id |-> 0, name |-> 1,
             hexes |-> <<<<0, 1>>, <<0, 2>>, <<0, 0>>, <<-1, 2>>>>,
             neighbors |-> <<>>]>>,
      allHexes |->
          <<<<0, 0>>, <<1, 0>>, <<2, 0>>, <<3, 0>>, <<0, 1>>, <<1, 1>>,
            <<2, 1>>, <<3, 1>>, <<-1, 2>>, <<0, 2>>, <<1, 2>>, <<2, 2>>>>,
      emptyHexes |-> {<<1, 1>>, <<1, 2>>, <<1, 0>>, <<2, 2>>, <<3, 0>>, <<3, 1>>, <<2, 1>>, <<2, 0>>}],
     [territories |->
          <<[id |-> 0, name |-> 1,
             hexes |-> <<<<1, 3>>, <<2, 3>>, <<1, 2>>>>,
             neighbors |-> <<1, 2>>],
            [id |-> 1, name |-> 2,
             hexes |-> <<<<3, 1>>, <<2, 1>>, <<2, 2>>, <<3, 0>>, <<2, 0>>>>,
             neighbors |-> <<2, 0>>],
            [id |-> 2, name |-> 3,
             hexes |-> <<<<0, 0>>, <<0, 1>>, <<1, 1>>, <<-1, 2>>, <<-1, 3>>>>,
             neighbors |-> <<1, 0>>]>>,
      allHexes |->
          <<<<0, 0>>, <<1, 0>>, <<2, 0>>, <<3, 0>>, <<0, 1>>, <<1, 1>>,
            <<2, 1>>, <<3, 1>>, <<-1, 2>>, <<0, 2>>, <<1, 2>>, <<2, 2>>,
            <<-1, 3>>, <<0, 3>>, <<1, 3>>, <<2, 3>>>>,
      emptyHexes |-> {<<1, 0>>, <<0, 3>>, <<0, 2>>}],
     [territories |->
          <<[id |-> 0, name |-> 1,
             hexes |-> <<<<2, 2>>, <<1, 2>>, <<3, 1>>>>,
             neighbors |-> <<3, 2>>],
            [id |-> 1, name |-> 2,
             hexes |-> <<<<0, 0>>, <<0, 1>>, <<-1, 2>>>>,
             neighbors |-> <<3>>],
            [id |-> 2, name |-> 3,
             hexes |-> <<<<4, 0>>, <<3, 0>>, <<2, 0>>>>,
             neighbors |-> <<0, 3>>],
            [id |-> 3, name |-> 4,
             hexes |-> <<<<1, 0>>, <<1, 1>>, <<2, 1>>>>,
             neighbors |-> <<2, 1, 0>>]>>,
      allHexes |->
          <<<<0, 0>>, <<1, 0>>, <<2, 0>>, <<3, 0>>, <<4, 0>>, <<0, 1>>,
            <<1, 1>>, <<2, 1>>, <<3, 1>>, <<4, 1>>, <<-1, 2>>, <<0, 2>>,
            <<1, 2>>, <<2, 2>>, <<3, 2>>>>,
      emptyHexes |-> {<<4, 1>>, <<0, 2>>, <<3, 2>>}]>>

HexSets(ts) == [i \in 1..Len(ts) |-> Range(ts[i].hexes)]

\* the hex sets the merge loop leaves, before the empty ones are dropped
MergedHexSets ==
    HexSets(MergeLoop(calculateTerritoryNeighbors(territories), 1,
                      config.minTerritorySize, config.maxTerritorySize))

\* position before the connectivity pass of the territory now at position j
OriginOf(j) ==
    CHOOSE p \in 1..Len(territories) :
        Range(territories'[j].hexes) \subseteq Range(territories[p].hexes)

C13_CleanupRenumbers ==
    /\ [](pc \in {"isolated", "neighbors", "done"} =>
             \A i \in 1..Len(territories) :
                 /\ Size(territories[i]) > 0
                 /\ territories[i].id = i - 1
                 /\ territories[i].name = i)
    /\ [][pc = "cleanup" =>
             HexSets(territories') = SeqKeep(MergedHexSets, {S \in Range(MergedHexSets) : S # {}})]_vars
    /\ [][pc = "isolated" =>
             /\ \A j \in 1..Len(territories') :
                    \E p \in 1..Len(territories) :
                        Range(territories'[j].hexes) \subseteq Range(territories[p].hexes)
             /\ \A j, k \in 1..Len(territories') : j < k => OriginOf(j) < OriginOf(k)]_vars

\* after the cleanup a territory sits before the position it was created
\* at: its first hex is the seed of a later territory
C13_Witness ==
    /\ pc = "isolated"
    /\ Len(territories) >= 2
    /\ \E j \in 1..Len(territories) :
           \E p \in (j + 1)..Len(seeds) :
               /\ territories[j].hexes[1] = hexKey(seeds[p])
               /\ territories[j].id = j - 1
               /\ Size(territories[j]) >= 2

(***************************************************************************)
(* C14: the growth loop terminates after at most 2 * gridWidth *           *)
(* gridHeight rounds, and when it is left the unclaimed pool is empty, or  *)
(* the round counter has reached 2 * gridWidth * gridHeight, or every      *)
(* territory has at least maxTerritorySize hexes.  Termination is stated   *)
(* by a rank: a natural number that every step of the loop decreases.      *)
(***************************************************************************)
LoopRank ==
    (maxIterations - iterations) * (Len(territories) + 2)
        + (IF pc = "round" THEN Len(order) + 1 ELSE 0)

C14_GrowthLoopTerminates ==
    /\ [](pc \in {"loop", "round"} => iterations <= maxIterations /\ LoopRank >= 0)
    /\ [][(pc \in {"loop", "round"} /\ pc' \in {"loop", "round"}) =>
              LoopRank' < LoopRank]_vars
    /\ [][(pc \in {"loop", "round"}) => (pc' \in {"loop", "round", "assign"})]_vars
    /\ [](pc = "assign" =>
             \/ Len(unclaimed) = 0
             \/ iterations = maxIterations
             \/ allMaxed)

\* the loop is left on its budget alone: hexes are still unclaimed and a
\* territory is still below maxTerritorySize
C14_Witness ==
    /\ pc = "assign"
    /\ iterations = maxIterations
    /\ iterations > 0
    /\ Len(unclaimed) > 0
    /\ ~allMaxed

\* the loop is left because every territory is at maxTerritorySize
C14_WitnessAllMaxed ==
    /\ pc = "assign"
    /\ allMaxed
    /\ Len(territories) >= 1
    /\ Len(unclaimed) > 0
    /\ iterations < maxIterations

\* the loop is left because the pool is empty
C14_WitnessPoolEmpty ==
    /\ pc = "assign"
    /\ Len(unclaimed) = 0
    /\ iterations > 0
    /\ iterations < maxIterations
    /\ ~allMaxed

(***************************************************************************)
(* C15 as stated: in a well-formed configuration (non-empty grid,          *)
(* emptyTilePercent 0, 1 <= territoryCount <= tiles, 1 <= minTerritorySize *)
(* <= maxTerritorySize) the growth loop is never stopped by its iteration  *)
(* budget: it is left with an empty unclaimed pool or with every           *)
(* territory at maxTerritorySize.                                          *)
(***************************************************************************)
WellFormed ==
    /\ config.gridWidth * config.gridHeight > 0
    /\ config.emptyTilePercent = 0
    /\ 1 <= config.territoryCount
    /\ config.territoryCount <= config.gridWidth * config.gridHeight
    /\ 1 <= config.minTerritorySize
    /\ config.minTerritorySize <= config.maxTerritorySize

C15_BudgetNeverStopsLoop ==
    (WellFormed /\ pc = "assign") => (Len(unclaimed) = 0 \/ allMaxed)

(***************************************************************************)
(* C16: in a growth round every territory index is processed exactly once  *)
(* (the order is a permutation of the indices and each step consumes its   *)
(* head), each territory gains at most one hex, and the unclaimed pool     *)
(* shrinks by exactly the number of territories that claimed.              *)
(***************************************************************************)
Gained(i) == Size(territories'[i]) - Size(territories[i])

C16_OneClaimPerRound ==
    /\ [][(pc = "loop" /\ pc' = "round") =>
              /\ Len(order') = Len(territories)
              /\ Range(order') = 1..Len(territories)
              /\ territories' = territories /\ unclaimed' = unclaimed]_vars
    /\ [][(pc = "round" /\ order # <<>>) =>
              /\ order' = Tail(order)
              /\ pc' = "round"
              /\ Len(territories') = Len(territories)
              /\ \A j \in 1..Len(territories) :
                     j # Head(order) => territories'[j] = territories[j]
              /\ Gained(Head(order)) \in {0, 1}
              /\ Len(unclaimed) - Len(unclaimed') = Gained(Head(order))]_vars
    /\ [][(pc = "round" /\ order = <<>>) =>
              territories' = territories /\ unclaimed' = unclaimed]_vars
    /\ [](pc \in {"loop", "round"} =>
             /\ \A i \in 1..Len(territories) : Size(territories[i]) <= 1 + iterations
             /\ \A a, b \in 1..Len(order) : a # b => order[a] # order[b]
             /\ Len(unclaimed) + SumSeq([i \in 1..Len(territories) |-> Size(territories[i])])
                    = Len(allHexes) - Cardinality(emptyHexes))

\* the first round is over: two territories claimed a hex each, a third
\* one claimed nothing, and the pool is two hexes shorter
C16_Witness ==
    /\ pc = "loop"
    /\ iterations = 1
    /\ Cardinality({i \in 1..Len(territories) : Size(territories[i]) = 2}) = 2
    /\ \E i \in 1..Len(territories) : Size(territories[i]) = 1
    /\ Len(unclaimed) = Len(allHexes) - Cardinality(emptyHexes) - Len(seeds) - 2

(***************************************************************************)
(* C17: throughout the growth phase every territory's hex set is           *)
(* edge-connected, and a hex claimed during growth is, when it is claimed, *)
(* a grid hex that is unclaimed, not blocked and adjacent to a hex the     *)
(* claiming territory already holds, stale frontier entries                *)
(* notwithstanding.                                                        *)
(***************************************************************************)
C17_GrowthStaysConnected ==
    /\ [](pc \in {"loop", "round", "assign"} =>
             \A i \in 1..Len(territories) : IsConnected(TerritoryKeys(i)))
    /\ [][(pc = "round" /\ order # <<>>) =>
              \A k \in Range(territories'[Head(order)].hexes) \ TerritoryKeys(Head(order)) :
                  /\ k \in GridKeys
                  /\ k \in Range(unclaimed)
                  /\ k \notin emptyHexes
                  /\ \E h \in TerritoryKeys(Head(order)) : AdjacentKeys(k, h)]_vars

\* in a round, a territory of three hexes or more while the frontier of
\* another one holds a hex that is no longer unclaimed
C17_Witness ==
    /\ pc = "round"
    /\ \E i \in 1..Len(territories) : Size(territories[i]) >= 3
    /\ \E i \in 1..Len(territories) : \E k \in frontiers[i] : k \notin Range(unclaimed)

(***************************************************************************)
(* C18: when the frontier hex drawn for a territory is no longer in the    *)
(* unclaimed pool, the step removes that one hex from that territory's     *)
(* frontier and changes nothing else: every territory's hexes, the pool,   *)
(* the blocked set and the other frontiers stay as they are, and the       *)
(* territory claims nothing in that round.  A step of a territory that is  *)
(* not skipped and gains no hex is such a step, and when every key of the  *)
(* frontier is stale the step cannot be anything else.                     *)
(***************************************************************************)
C18_StalePickOnlyDropsKey ==
    /\ [][(/\ pc = "round"
           /\ order # <<>>
           /\ ~Skipped(Head(order))
           /\ territories'[Head(order)] = territories[Head(order)]) =>
              (/\ \E k \in frontiers[Head(order)] \ Range(unclaimed) :
                     frontiers' = [frontiers EXCEPT
                                      ![Head(order)] = frontiers[Head(order)] \ {k}]
               /\ UNCHANGED <<territories, unclaimed, emptyHexes, allHexes,
                              iterations, seeds, config, pc>>
               /\ order' = Tail(order))]_vars
    /\ [][(/\ pc = "round"
           /\ order # <<>>
           /\ ~Skipped(Head(order))
           /\ frontiers[Head(order)] \cap Range(unclaimed) = {}) =>
              (/\ territories' = territories
               /\ unclaimed' = unclaimed
               /\ Cardinality(frontiers'[Head(order)]) =
                      Cardinality(frontiers[Head(order)]) - 1)]_vars

\* in the first round a territory that could still grow has had its turn and
\* holds its seed only, its frontier still keeping a key next to another
\* stale one: its draw was a hex another territory had just claimed
C18_Witness ==
    /\ pc = "round"
    /\ iterations = 1
    /\ \E i \in 1..Len(territories) :
          /\ i \notin Range(order)
          /\ Size(territories[i]) = 1
          /\ config.maxTerritorySize > 1
          /\ \E k \in frontiers[i] : k \notin Range(unclaimed)

\* the hexes a territory may grow into: unclaimed, not blocked and adjacent
\* to a hex the territory holds
GrowableKeys(hexes, uncl, blocked) ==
    {k \in Range(uncl) : k \notin blocked /\ \E h \in Range(hexes) : AdjacentKeys(h, k)}

(***************************************************************************)
(* C19: right after a territory claims a hex and its frontier is           *)
(* refreshed, and right after the frontiers are initialised from the       *)
(* seeds, the territory's frontier is exactly the set of hexes that are    *)
(* unclaimed, not blocked and adjacent to a hex of the territory; it holds *)
(* no claimed hex and no hex of the territory itself.                      *)
(***************************************************************************)
C19_FrontierExactAfterRefresh ==
    /\ []((pc = "loop" /\ iterations = 0) =>
             \A i \in 1..Len(territories) :
                 frontiers[i] = GrowableKeys(territories[i].hexes, unclaimed, emptyHexes))
    /\ [][(/\ pc = "round"
           /\ order # <<>>
           /\ territories'[Head(order)] # territories[Head(order)]) =>
              (/\ frontiers'[Head(order)] =
                     GrowableKeys(territories'[Head(order)].hexes, unclaimed', emptyHexes')
               /\ frontiers'[Head(order)] \cap
                     UNION {Range(territories'[j].hexes) : j \in 1..Len(territories')} = {}
               /\ frontiers'[Head(order)] \subseteq Range(unclaimed'))]_vars

\* in the first round two territories have claimed a hex each; the hex of
\* one lies next to the seed of the other, so it was in the other's initial
\* frontier, and the other's refresh has pruned it
C19_Witness ==
    /\ pc = "round"
    /\ iterations = 1
    /\ \E i, j \in 1..Len(territories) :
          /\ i # j
          /\ i \notin Range(order)
          /\ j \notin Range(order)
          /\ Size(territories[i]) = 2
          /\ Size(territories[j]) = 2
          /\ AdjacentKeys(territories[i].hexes[1], territories[j].hexes[2])
          /\ territories[j].hexes[2] \notin frontiers[i]
          /\ frontiers[i] # {}

(***************************************************************************)
(* C20: placeSeedPoints(hexes, N) returns pairwise distinct coordinates,   *)
(* all of them among the given non-blocked hexes, and as many as           *)
(* min(N, number of non-blocked hexes) for N >= 0; each seed is            *)
(* pre-claimed by a territory of its own, so no two territories start on   *)
(* the same hex.                                                           *)
(***************************************************************************)
C20_SeedsDistinctAndCounted ==
    (pc = "loop" /\ iterations = 0) =>
        /\ Len(seeds) = Min2(config.territoryCount,
                             Len(allHexes) - Cardinality(emptyHexes))
        /\ \A a, b \in 1..Len(seeds) : a # b => seeds[a] # seeds[b]
        /\ \A a \in 1..Len(seeds) : hexKey(seeds[a]) \in GridKeys \ emptyHexes
        /\ Len(territories) = config.territoryCount
        /\ \A i \in 1..Len(territories) :
               territories[i].hexes =
                   IF i <= Len(seeds) THEN <<hexKey(seeds[i])>> ELSE <<>>
        /\ \A i, j \in 1..Len(territories) :
               i # j => Range(territories[i].hexes) \cap Range(territories[j].hexes) = {}

\* seeding is over with fewer free tiles than territories asked for: every
\* free tile is a seed, the second loop having placed seeds closer than the
\* spacing, and the last territories start empty
C20_Witness ==
    /\ pc = "loop"
    /\ iterations = 0
    /\ Len(seeds) >= 3
    /\ Len(seeds) < config.territoryCount
    /\ Len(seeds) = Len(allHexes) - Cardinality(emptyHexes)
    /\ tooClose(seeds[2], <<seeds[1]>>)
    /\ territories[config.territoryCount].hexes = <<>>

\* the other side of the minimum: more free tiles than territories
C20_WitnessEnoughTiles ==
    /\ pc = "loop"
    /\ iterations = 0
    /\ config.territoryCount >= 2
    /\ Len(seeds) = config.territoryCount
    /\ Len(seeds) < Len(allHexes) - Cardinality(emptyHexes)
    /\ emptyHexes # {}

(***************************************************************************)
(* Seed placement on a grid wide enough for spaced seeds: generateMap up   *)
(* to the end of seeding, on a SeedsWidth x SeedsHeight grid with half of  *)
(* the tiles blocked.                                                      *)
(***************************************************************************)
SeedsWidth == 5
SeedsHeight == 2

SeedsConfigs ==
    [gridWidth : {SeedsWidth}, gridHeight : {SeedsHeight}, territoryCount : 1..3,
     minTerritorySize : {1}, maxTerritorySize : {2}, emptyTilePercent : {200}]

SeedsInit == \E c \in SeedsConfigs : Started(c)

SeedsNext == SelectBlocked \/ SeedTerritories

SpecSeeds == SeedsInit /\ [][SeedsNext]_vars

\* the hexes handed to placeSeedPoints, in grid order
FreeHexes == SeqFilterOut(allHexes, {h \in Range(allHexes) : hexKey(h) \in emptyHexes})

SpacedFrom(h, s) ==
    \A i \in 1..Len(s) : Abs(h[1] - s[i][1]) + Abs(h[2] - s[i][2]) >= 4

PairwiseSpaced(s) ==
    \A a, b \in 1..Len(s) : a < b => SpacedFrom(s[b], <<s[a]>>)

\* the length of the longest prefix of s that is pairwise spaced
RECURSIVE SpacedPrefix(_, _)
SpacedPrefix(s, n) ==
    IF n < Len(s) /\ SpacedFrom(s[n + 1], SubSeq(s, 1, n))
    THEN SpacedPrefix(s, n + 1) ELSE n

(***************************************************************************)
(* C21: every seed accepted in the first pass of the seed placer is at     *)
(* |dq| + |dr| >= 4 from every seed accepted before it; the second pass,   *)
(* which ignores spacing, adds seeds only when the first pass yielded      *)
(* fewer than N, so when the first pass alone yields N seeds all seeds are *)
(* pairwise at distance >= 4.  Stated for every shuffle of the free hexes  *)
(* before seeding, and on the seeds once placed: a seed closer than 4 to   *)
(* an earlier one exists only when no free hex was spaced from all the     *)
(* spaced seeds.                                                           *)
(***************************************************************************)
C21_FirstPassSpaced ==
    /\ pc = "seed" =>
          \A shuffled \in shuffleArray(FreeHexes) :
              LET first == SpacedPass(shuffled, config.territoryCount, <<>>)
                  placed == placeSeedPoints(shuffled, config.territoryCount)
              IN /\ PairwiseSpaced(first)
                 /\ Len(first) <= Len(placed)
                 /\ SubSeq(placed, 1, Len(first)) = first
                 /\ placed # first => Len(first) < config.territoryCount
                 /\ Len(first) = config.territoryCount => PairwiseSpaced(placed)
    /\ (pc = "loop" /\ iterations = 0) =>
          LET p == SpacedPrefix(seeds, 0)
          IN p < Len(seeds) =>
                 /\ p < config.territoryCount
                 /\ \A h \in Range(FreeHexes) \ Range(SubSeq(seeds, 1, p)) :
                        ~SpacedFrom(h, SubSeq(seeds, 1, p))

\* seeding is over and the first pass alone has placed the two seeds asked
\* for, at distance 4 or more
C21_Witness ==
    /\ pc = "loop"
    /\ iterations = 0
    /\ config.territoryCount = 2
    /\ Len(seeds) = 2
    /\ PairwiseSpaced(seeds)

\* the second pass has run: two spaced seeds, then a third one close to one
\* of them
C21_WitnessFilled ==
    /\ pc = "loop"
    /\ iterations = 0
    /\ Len(seeds) = 3
    /\ SpacedPrefix(seeds, 0) = 2

(***************************************************************************)
(* The unclaimed-tile resolver on its own: assignUnclaimedHexes applied to *)
(* every split of a MaxWidth x MaxHeight grid into disjoint territories of *)
(* at most maxTerritorySize hexes, blocked tiles and unclaimed hexes, the  *)
(* pool and the hex sets in grid order as generateMap builds them.         *)
(***************************************************************************)
ResolverConfigs ==
    [gridWidth : {MaxWidth}, gridHeight : {MaxHeight}, territoryCount : 2..3,
     minTerritorySize : {1}, maxTerritorySize : 2..MaxMaxSize, emptyTilePercent : {0}]

\* owner[k] is 0 for an unclaimed hex, i for a hex of territory i and
\* territoryCount + 1 for a blocked tile
ResolverCalled(c, owner) ==
    LET grid == generateHexGrid(c.gridWidth, c.gridHeight)
        keys == [k \in 1..Len(grid) |-> hexKey(grid[k])]
        held(i) == {keys[k] : k \in {n \in 1..Len(grid) : owner[n] = i}}
    IN /\ config = c
       /\ pc = "assign"
       /\ allHexes = grid
       /\ emptyHexes = held(c.territoryCount + 1)
       /\ unclaimed = SeqKeep(keys, held(0))
       /\ territories = [i \in 1..c.territoryCount |->
                            [createTerritory(i - 1) EXCEPT !.hexes = SeqKeep(keys, held(i))]]
       /\ frontiers = [i \in 1..c.territoryCount |-> {}]
       /\ iterations = 0
       /\ order = <<>>
       /\ seeds = <<>>
       /\ NoGame

ResolverInit ==
    \E c \in ResolverConfigs :
        \E owner \in [1..(c.gridWidth * c.gridHeight) -> 0..(c.territoryCount + 1)] :
            /\ \A i \in 1..c.territoryCount :
                   Cardinality({n \in DOMAIN owner : owner[n] = i}) <= c.maxTerritorySize
            /\ ResolverCalled(c, owner)

ResolverNext == AssignUnclaimed

SpecResolver == ResolverInit /\ [][ResolverNext]_vars

(***************************************************************************)
(* C22: in the resolver every hex still unclaimed after growth is handled  *)
(* exactly once.  If at that moment a territory owns a neighbouring hex    *)
(* and has fewer than maxTerritorySize hexes, the hex goes to the smallest *)
(* such territory (on equal size the one met first in neighbour-direction  *)
(* order) and to no other; otherwise it goes to emptyHexes.  Hexes         *)
(* assigned earlier in the pass count as owned for later hexes.            *)
(***************************************************************************)
C22_ResolverRule ==
    [][(pc = "assign") =>
         LET U == unclaimed
             n == Len(territories)
             a == [k \in 1..Len(U) |->
                      IF \E i \in 1..n : U[k] \in Range(territories'[i].hexes)
                      THEN CHOOSE i \in 1..n : U[k] \in Range(territories'[i].hexes)
                      ELSE 0]
             sizeAt(i, k) == Size(territories[i]) + Cardinality({j \in 1..(k - 1) : a[j] = i})
             ownsAt(i, h, k) ==
                 \/ h \in Range(territories[i].hexes)
                 \/ \E j \in 1..(k - 1) : U[j] = h /\ a[j] = i
             metAt(i, k) == {d \in 1..6 : ownsAt(i, NeighborKeys(U[k])[d], k)}
             cand(k) == {i \in 1..n : sizeAt(i, k) < config.maxTerritorySize /\ metAt(i, k) # {}}
             firstDir(i, k) == CHOOSE d \in metAt(i, k) : \A e \in metAt(i, k) : d <= e
         IN /\ Len(territories') = n
            /\ \A k \in 1..Len(U) :
                   /\ Cardinality({i \in 1..n : U[k] \in Range(territories'[i].hexes)})
                          + (IF U[k] \in emptyHexes' THEN 1 ELSE 0) = 1
                   /\ IF cand(k) = {}
                      THEN a[k] = 0
                      ELSE /\ a[k] \in cand(k)
                           /\ \A i \in cand(k) \ {a[k]} :
                                  \/ sizeAt(a[k], k) < sizeAt(i, k)
                                  \/ /\ sizeAt(a[k], k) = sizeAt(i, k)
                                     /\ firstDir(a[k], k) < firstDir(i, k)
            /\ \A i \in 1..n :
                   territories'[i].hexes =
                       territories[i].hexes \o SeqKeep(U, {U[k] : k \in {j \in 1..Len(U) : a[j] = i}})
            /\ emptyHexes' = emptyHexes \cup {U[k] : k \in {j \in 1..Len(U) : a[j] = 0}}]_vars

\* the pass is over: a territory received two hexes of the pool, the later
\* one touching it only through the earlier one, while another hex of the
\* pool became blocked
C22_Witness ==
    /\ pc = "cleanup"
    /\ \E i \in 1..Len(territories) : \E k1, k2 \in 1..Len(unclaimed) :
          /\ k1 < k2
          /\ unclaimed[k1] \in Range(territories[i].hexes)
          /\ unclaimed[k2] \in Range(territories[i].hexes)
          /\ AdjacentKeys(unclaimed[k1], unclaimed[k2])
          /\ \A h \in Range(territories[i].hexes) \ Range(unclaimed) :
                 ~AdjacentKeys(h, unclaimed[k2])
    /\ \E k \in 1..Len(unclaimed) : unclaimed[k] \in emptyHexes

\* the pass is over: a hex of the pool lies next to two territories that
\* were of equal size when it was handled, and went to one of them
C22_WitnessTie ==
    /\ pc = "cleanup"
    /\ Len(unclaimed) = 1
    /\ \E i, j \in 1..Len(territories) :
          /\ i # j
          /\ unclaimed[1] \in Range(territories[i].hexes)
          /\ Size(territories[i]) = Size(territories[j]) + 1
          /\ \E h \in Range(territories[j].hexes) : AdjacentKeys(h, unclaimed[1])

\* territories at positions p and q own hexes adjacent to each other
Touching(ts, p, q) ==
    \E h \in Range(ts[p].hexes) : \E g \in Range(ts[q].hexes) : AdjacentKeys(h, g)

\* the position that received hexes between ts and next
Receiver(ts, next) == CHOOSE r \in 1..Len(ts) : Size(next[r]) > Size(ts[r])

\* i is undersized and r is a non-empty territory touching it that can take it
RealCandidate(ts, i, r, maxSize) ==
    /\ r # i
    /\ Size(ts[r]) > 0
    /\ Touching(ts, i, r)
    /\ Size(ts[r]) + Size(ts[i]) <= maxSize

\* every transfer of the merge loop from position i on goes to a real
\* candidate than which no other is strictly smaller
RECURSIVE MergesSound(_, _, _, _)
MergesSound(ts, i, minSize, maxSize) ==
    IF i > Len(ts) THEN TRUE
    ELSE LET next == MergeOne(ts, i, minSize, maxSize)
         IN /\ next # ts =>
                  /\ Size(ts[i]) > 0 /\ Size(ts[i]) < minSize
                  /\ RealCandidate(ts, i, Receiver(ts, next), maxSize)
                  /\ \A q \in 1..Len(ts) :
                         RealCandidate(ts, i, q, maxSize) =>
                             Size(ts[q]) >= Size(ts[Receiver(ts, next)])
            /\ MergesSound(next, i + 1, minSize, maxSize)

(***************************************************************************)
(* C23: whenever the size balancer transfers the hexes of an undersized    *)
(* territory T, the receiving territory is at that moment a real neighbour *)
(* of T (non-empty, owning a hex adjacent to a hex of T), its size plus    *)
(* T's size does not exceed maxTerritorySize and no other such neighbour   *)
(* is strictly smaller; hexes are never transferred into a territory that  *)
(* an earlier merge of the same pass has emptied.                          *)
(***************************************************************************)
C23_MergeIntoRealNeighbour ==
    pc = "cleanup" =>
        MergesSound(calculateTerritoryNeighbors(territories), 1,
                    config.minTerritorySize, config.maxTerritorySize)

(***************************************************************************)
(* C24: after the size balancer pass a territory with fewer than           *)
(* minTerritorySize hexes remains only when no territory hex-adjacent to   *)
(* it could absorb it without exceeding maxTerritorySize: its size plus    *)
(* the neighbour's size is above maxTerritorySize for every adjacent       *)
(* territory, or it has no adjacent territory.                             *)
(***************************************************************************)
C24_UndersizedOnlyIfNoRoom ==
    pc = "isolated" =>
        \A i \in 1..Len(territories) :
            Size(territories[i]) < config.minTerritorySize =>
                \A j \in 1..Len(territories) :
                    (j # i /\ Touching(territories, i, j)) =>
                        Size(territories[i]) + Size(territories[j]) > config.maxTerritorySize

\* the connected components of the land
LandComponents == {ReachableIn(LandKeys, {k}) : k \in LandKeys}

\* hex a comes before hex b in the iteration over the territories' hexes
Earlier(a, b) ==
    \E i, j \in 1..Len(territories) :
        \E m \in 1..Len(territories[i].hexes) : \E n \in 1..Len(territories[j].hexes) :
            /\ territories[i].hexes[m] = a
            /\ territories[j].hexes[n] = b
            /\ (i < j \/ (i = j /\ m < n))

\* component K is discovered before component C
DiscoveredBefore(K, C) == \E a \in K : \A b \in C : Earlier(a, b)

(***************************************************************************)
(* C25: the connectivity enforcer keeps exactly one connected component   *)
(* of the territory hexes, one of maximum size and, on a tie, the one      *)
(* discovered first in iteration order; every hex of every other           *)
(* component leaves its territory and joins emptyHexes; with at most one   *)
(* component, or at most one territory, territories and emptyHexes are     *)
(* left as they are.                                                       *)
(***************************************************************************)
C25_KeepsLargestComponent ==
    [][(pc = "isolated") =>
         IF Len(territories) <= 1 \/ Cardinality(LandComponents) <= 1
         THEN territories' = territories /\ emptyHexes' = emptyHexes
         ELSE \E K \in LandComponents :
                  /\ \A C \in LandComponents : Cardinality(C) <= Cardinality(K)
                  /\ \A C \in LandComponents \ {K} :
                         Cardinality(C) = Cardinality(K) => DiscoveredBefore(K, C)
                  /\ UNION {Range(territories'[j].hexes) : j \in 1..Len(territories')} = K
                  /\ LET kept == [i \in 1..Len(territories) |->
                                     SeqKeep(territories[i].hexes, K)]
                     IN [j \in 1..Len(territories') |-> territories'[j].hexes] =
                            SeqKeep(kept, {s \in Range(kept) : s # <<>>})
                  /\ emptyHexes' = emptyHexes \cup (LandKeys \ K)]_vars

\* the pass is over with the pool empty: one seeded component was removed
\* and it was as large as the land that is kept
C25_Witness ==
    /\ pc = "neighbors"
    /\ unclaimed = <<>>
    /\ Cardinality(SeedKeys \cap emptyHexes) = 1
    /\ Cardinality(LandKeys) >= 1
    /\ Cardinality(emptyHexes) - emptyCount(Len(allHexes)) = Cardinality(LandKeys)

\* the pass is over and has removed a component smaller than the land kept
C25_WitnessSmaller ==
    /\ pc = "neighbors"
    /\ unclaimed = <<>>
    /\ Cardinality(SeedKeys \cap emptyHexes) = 1
    /\ Cardinality(emptyHexes) - emptyCount(Len(allHexes)) < Cardinality(LandKeys)

(***************************************************************************)
(* C26 says that there are runs in which the connectivity enforcer leaves  *)
(* a surviving territory with fewer hexes than it had, below               *)
(* minTerritorySize, with no balancing pass afterwards.  That a run        *)
(* exists is not a property of all runs; what is one is its opposite and   *)
(* the part about the balancer.  C26_SurvivorsKeepTheirHexes: every        *)
(* territory that survives the connectivity pass has exactly the hexes it  *)
(* had before it.  C26_NoBalancerAfterwards: once the connectivity pass    *)
(* has started cleanupTerritories does not run again, and after the pass   *)
(* no hex set changes.                                                     *)
(***************************************************************************)
C26_SurvivorsKeepTheirHexes ==
    [][(pc = "isolated") =>
         \A j \in 1..Len(territories') :
             \E p \in 1..Len(territories) : territories'[j].hexes = territories[p].hexes]_vars

C26_NoBalancerAfterwards ==
    [][(pc \in {"isolated", "neighbors", "done"}) =>
         /\ pc' # "cleanup"
         /\ pc # "isolated" => HexSets(territories') = HexSets(territories)]_vars

\* the connectivity pass has removed a whole territory next to the pool's
\* remains and an undersized territory is returned
C26_UndersizedReturned ==
    /\ Returned
    /\ IsolatedSeedRemoved
    /\ \E i \in 1..Len(territories) : Size(territories[i]) < config.minTerritorySize

\* ids are unique and hex sets are disjoint
UniqueAndDisjoint(ts) ==
    \A a, b \in 1..Len(ts) :
        a # b => /\ ts[a].id # ts[b].id
                 /\ Range(ts[a].hexes) \cap Range(ts[b].hexes) = {}

\* B.id is in A.neighbors exactly when A and B are different and touch
NeighborsExact(ts) ==
    /\ \A a, b \in 1..Len(ts) :
           ts[b].id \in Range(ts[a].neighbors) <=> (a # b /\ Touching(ts, a, b))
    /\ \A a \in 1..Len(ts) :
           /\ ts[a].id \notin Range(ts[a].neighbors)
           /\ Range(ts[a].neighbors) \subseteq {ts[b].id : b \in 1..Len(ts)}

(***************************************************************************)
(* C27: after calculateTerritoryNeighbors has run on territories with      *)
(* unique ids and disjoint hex sets, B.id is in A.neighbors exactly when A *)
(* and B are different territories and a hex of A is adjacent to a hex of  *)
(* B; no territory lists its own id; in the returned map every id of a     *)
(* neighbor set is the id of a returned territory.  Checked for the call   *)
(* at the start of cleanupTerritories, for the one at its end and for the  *)
(* one before the map is returned.                                         *)
(***************************************************************************)
C27_NeighborsExact ==
    /\ pc = "cleanup" =>
          (UniqueAndDisjoint(territories) /\
           NeighborsExact(calculateTerritoryNeighbors(territories)))
    /\ pc \in {"isolated", "done"} =>
          (UniqueAndDisjoint(territories) /\ NeighborsExact(territories))

\* a map is returned after the connectivity pass removed the first
\* territory and renumbered the others, two of which are adjacent
C27_Witness ==
    /\ Returned
    /\ Len(seeds) >= 1
    /\ hexKey(seeds[1]) \in emptyHexes
    /\ Len(territories) >= 2
    /\ \E a, b \in 1..Len(territories) : a # b /\ Touching(territories, a, b)

\* a map of three territories is returned, two of them not adjacent
C27_WitnessApart ==
    /\ Returned
    /\ Len(territories) >= 3
    /\ \E a, b \in 1..Len(territories) :
           a # b /\ territories[a].hexes # <<>> /\ ~Touching(territories, a, b)

(***************************************************************************)
(* generateHexGrid on its own: generateMap up to the grid, for every width *)
(* and height up to GridMax, without blocked tiles.                        *)
(***************************************************************************)
GridMax == 7

GridConfigs ==
    [gridWidth : 0..GridMax, gridHeight : 0..GridMax, territoryCount : {0},
     minTerritorySize : {1}, maxTerritorySize : {1}, emptyTilePercent : {0}]

GridInit == \E c \in GridConfigs : Started(c)

GridNext == SelectBlocked

SpecGrid == GridInit /\ [][GridNext]_vars

(***************************************************************************)
(* C28: generateHexGrid(width, height) returns exactly width * height      *)
(* coordinates without duplicates, namely (q, r) = (c - floor(r/2), r) for *)
(* every row r in 0..height-1 and column c in 0..width-1, and the empty    *)
(* list when width or height is 0.                                         *)
(***************************************************************************)
C28_GridCoordinates ==
    pc = "seed" =>
        /\ Len(allHexes) = config.gridWidth * config.gridHeight
        /\ \A a, b \in 1..Len(allHexes) : a # b => allHexes[a] # allHexes[b]
        /\ Range(allHexes) =
               {<<c - (r \div 2), r>> : c \in 0..(config.gridWidth - 1),
                                        r \in 0..(config.gridHeight - 1)}
        /\ (config.gridWidth = 0 \/ config.gridHeight = 0) => allHexes = <<>>

\* a grid of four rows or more has been generated: the last rows start at
\* a negative q
C28_Witness ==
    /\ pc = "seed"
    /\ config.gridHeight >= 4
    /\ config.gridWidth >= 2
    /\ <<0 - 1, 3>> \in Range(allHexes)
    /\ <<config.gridWidth - 1, 3>> \notin Range(allHexes)

\* the grid of a zero width has been generated
C28_WitnessEmpty ==
    /\ pc = "seed"
    /\ config.gridWidth = 0
    /\ config.gridHeight > 0
    /\ allHexes = <<>>

(***************************************************************************)
(* hex.js: hexS and hexDistance.  n / 2 of an integer n is given by its    *)
(* whole part and by whether a half is left over.                          *)
(***************************************************************************)
hexS(h) == 0 - h[1] - h[2]

Halved(n) == [whole |-> n \div 2, half |-> n % 2]

\* the distance without the third cube coordinate
hexDistanceTwoTerms(a, b) == Halved(Abs(a[1] - b[1]) + Abs(a[2] - b[2]))

hexDistance(a, b) ==
    Halved(Abs(a[1] - b[1]) + Abs(a[2] - b[2]) + Abs(hexS(a) - hexS(b)))

(***************************************************************************)
(* Calls of the hex.js functions on their own.  allHexes holds the hexes   *)
(* passed; after the call iterations holds the number hexDistance          *)
(* returned, seeds the hexes hexNeighbors or parseHexKey returned and      *)
(* unclaimed the key hexKey returned.                                      *)
(***************************************************************************)
HexCalled(args) ==
    /\ pc = "start"
    /\ allHexes = args
    /\ config = [gridWidth |-> 0, gridHeight |-> 0, territoryCount |-> 0,
                 minTerritorySize |-> 1, maxTerritorySize |-> 1, emptyTilePercent |-> 0]
    /\ emptyHexes = {}
    /\ unclaimed = <<>>
    /\ territories = <<>>
    /\ frontiers = <<>>
    /\ iterations = 0
    /\ order = <<>>
    /\ seeds = <<>>
    /\ NoGame

DistCoord == 3

DistHexes == (-DistCoord..DistCoord) \X (-DistCoord..DistCoord)

DistanceInit == \E a, b \in DistHexes : HexCalled(<<a, b>>)

\* hexDistance(a, b) and hexNeighbors(a)
DistanceCall ==
    /\ pc = "start"
    /\ iterations' = hexDistance(allHexes[1], allHexes[2])
    /\ seeds' = hexNeighbors(allHexes[1])
    /\ pc' = "done"
    /\ UNCHANGED <<gameVars, config, allHexes, emptyHexes, unclaimed, territories, frontiers, order>>

SpecDistance == DistanceInit /\ [][DistanceCall]_vars

KeyCoord == 11

KeyHexes == (-KeyCoord..KeyCoord) \X (-KeyCoord..KeyCoord)

KeyInit == \E h \in KeyHexes : HexCalled(<<h>>)

\* hexKey(h) and parseHexKey(hexKey(h))
KeyCall ==
    /\ pc = "start"
    /\ unclaimed' = <<hexKey(allHexes[1])>>
    /\ seeds' = <<parseHexKey(hexKey(allHexes[1]))>>
    /\ pc' = "done"
    /\ UNCHANGED <<gameVars, config, allHexes, emptyHexes, territories, frontiers, iterations, order>>

SpecKey == KeyInit /\ [][KeyCall]_vars

Max3(x, y, z) == Max2(x, Max2(y, z))

(***************************************************************************)
(* C29: for integer hexes a and b, hexDistance(a, b) =                     *)
(* (|dq| + |dr| + |dq + dr|) / 2 is a non-negative integer equal to        *)
(* max(|dq|, |dr|, |dq + dr|), is symmetric and is 0 exactly when a = b;   *)
(* hexNeighbors(h) returns six pairwise distinct hexes, each at distance 1 *)
(* from h, always in the direction order E, NE, NW, W, SW, SE.             *)
(***************************************************************************)
C29_DistanceAndNeighbors ==
    pc = "done" =>
        LET a == allHexes[1]
            b == allHexes[2]
            dq == a[1] - b[1]
            dr == a[2] - b[2]
        IN /\ iterations.half = 0
           /\ iterations.whole >= 0
           /\ 2 * iterations.whole + iterations.half = Abs(dq) + Abs(dr) + Abs(dq + dr)
           /\ iterations.whole = Max3(Abs(dq), Abs(dr), Abs(dq + dr))
           /\ iterations = hexDistance(b, a)
           /\ (iterations.whole = 0 /\ iterations.half = 0) <=> a = b
           /\ Len(seeds) = 6
           /\ \A d, e \in 1..6 : d # e => seeds[d] # seeds[e]
           /\ \A d \in 1..6 : hexDistance(a, seeds[d]) = [whole |-> 1, half |-> 0]
           /\ seeds = << <<a[1] + 1, a[2]>>, <<a[1] + 1, a[2] - 1>>, <<a[1], a[2] - 1>>,
                         <<a[1] - 1, a[2]>>, <<a[1] - 1, a[2] + 1>>, <<a[1], a[2] + 1>> >>

\* the distance of two hexes that differ in q and in r with opposite signs
\* has been computed: it is max(|dq|, |dr|), not |dq| + |dr|
C29_Witness ==
    /\ pc = "done"
    /\ Len(allHexes) = 2
    /\ allHexes[1][1] - allHexes[2][1] = 3
    /\ allHexes[1][2] - allHexes[2][2] = 0 - 2
    /\ iterations = [whole |-> 3, half |-> 0]

\* the distance of two hexes that differ in q and in r with the same sign
C29_WitnessSameSign ==
    /\ pc = "done"
    /\ Len(allHexes) = 2
    /\ allHexes[1][1] - allHexes[2][1] = 2
    /\ allHexes[1][2] - allHexes[2][2] = 3
    /\ iterations = [whole |-> 5, half |-> 0]

(***************************************************************************)
(* C30: for every integer hex h, negative coordinates included,            *)
(* parseHexKey(hexKey(h)) equals h, and two hexes have the same key if and *)
(* only if they have the same q and the same r.                            *)
(***************************************************************************)
C30_KeyRoundTrip ==
    pc = "done" =>
        /\ seeds = allHexes
        /\ \A g \in KeyHexes :
               hexKey(g) = unclaimed[1] <=> (g[1] = allHexes[1][1] /\ g[2] = allHexes[1][2])

\* the key of a hex with a negative q of two digits has been parsed back
C30_Witness ==
    /\ pc = "done"
    /\ Len(allHexes) = 1
    /\ allHexes[1] = <<0 - 10, 7>>
    /\ unclaimed = << <<"-", "1", "0", ",", "7">> >>
    /\ seeds = << <<0 - 10, 7>> >>

(***************************************************************************)
(* The game layer: src/unnamed/part_006 (game.ts), src/src/combat.js,      *)
(* src/src/ai.js and src/unnamed/part_001 (main.js).                       *)
(*                                                                         *)
(* A game territory is the record [id, neighbors, owner, armies, type]     *)
(* (name, hexes, color and armyHex are only drawn), a team the record      *)
(* [id, territories, isHuman] with territories the array of owned ids.     *)
(* teams[k] of the code is teams[k + 1] here.  JavaScript null in a field  *)
(* that otherwise holds an id is Null; a null lastCombatResult is          *)
(* NoResult.                                                               *)
(***************************************************************************)
Null == -1

NoResult == [attackerWins |-> FALSE, attackerArmies |-> 0, defenderArmies |-> 0,
             attackerLost |-> 0, defenderLost |-> 0]

RECURSIVE RemoveFirst(_, _)
RemoveFirst(s, x) ==
    IF s = <<>> THEN <<>>
    ELSE IF Head(s) = x THEN Tail(s)
    ELSE <<Head(s)>> \o RemoveFirst(Tail(s), x)

\* the positions of s, in order, whose element satisfies keep
Positions(s, keep(_)) == SeqKeep([i \in 1..Len(s) |-> i], {i \in 1..Len(s) : keep(s[i])})

(***************************************************************************)
(* combat.js                                                               *)
(***************************************************************************)
\* rollDice and getHighestRoll: the highest of count dice; Math.max() of no
\* roll is -Infinity, which 0 stands for (below every face)
HighestRolls(count) == IF count >= 1 THEN 1..6 ELSE {0}

\* resolveCombat lines 26-43, given the highest roll of each side
resolveCombat(attackerArmies, defenderArmies, attackerHighest, defenderHighest) ==
    [attackerWins |-> attackerHighest > defenderHighest,
     attackerArmies |-> attackerArmies,
     defenderArmies |-> defenderArmies,
     attackerLost |-> 0,
     defenderLost |-> 0]

\* a failed attack that costs the attacker as many armies as the defender has,
\* without keeping one behind
executeAttackNoneBehind(ts, teams, si, ti, attackerHighest, defenderHighest) ==
    LET source == ts[si]
        target == ts[ti]
        result == resolveCombat(source.armies, target.armies,
                                attackerHighest, defenderHighest)
    IN IF result.attackerWins
       THEN [territories |-> [ts EXCEPT ![ti].owner = source.owner,
                                        ![ti].armies = source.armies - 1,
                                        ![si].armies = 1],
             teams |-> [k \in 1..Len(teams) |->
                           IF k = target.owner + 1
                           THEN [teams[k] EXCEPT !.territories = RemoveFirst(@, target.id)]
                           ELSE IF k = source.owner + 1
                           THEN [teams[k] EXCEPT !.territories = Append(@, target.id)]
                           ELSE teams[k]],
             result |-> [result EXCEPT !.defenderLost = target.armies]]
       ELSE LET attackerLost == Min2(target.armies, source.armies)
                defenderLost == Min2(result.attackerArmies - 1, target.armies - 1)
            IN [territories |-> [ts EXCEPT ![si].armies = @ - attackerLost,
                                           ![ti].armies = @ - defenderLost],
                teams |-> teams,
                result |-> [result EXCEPT !.attackerLost = attackerLost,
                                          !.defenderLost = defenderLost]]

\* a capture that adds the target to the new owner's list and leaves it in the
\* previous owner's list
executeAttackKeepsListed(ts, teams, si, ti, attackerHighest, defenderHighest) ==
    LET source == ts[si]
        target == ts[ti]
        result == resolveCombat(source.armies, target.armies,
                                attackerHighest, defenderHighest)
    IN IF result.attackerWins
       THEN [territories |-> [ts EXCEPT ![ti].owner = source.owner,
                                        ![ti].armies = source.armies - 1,
                                        ![si].armies = 1],
             teams |-> [teams EXCEPT ![source.owner + 1].territories =
                                         Append(@, target.id)],
             result |-> [result EXCEPT !.defenderLost = target.armies]]
       ELSE LET attackerLost == Min2(target.armies, source.armies - 1)
                defenderLost == Min2(result.attackerArmies - 1, target.armies - 1)
            IN [territories |-> [ts EXCEPT ![si].armies = @ - attackerLost,
                                           ![ti].armies = @ - defenderLost],
                teams |-> teams,
                result |-> [result EXCEPT !.attackerLost = attackerLost,
                                          !.defenderLost = defenderLost]]

\* executeAttack lines 48-96 on territories[si] and territories[ti]: the
\* territories and teams it leaves, and the result it returns
executeAttack(ts, teams, si, ti, attackerHighest, defenderHighest) ==
    LET source == ts[si]
        target == ts[ti]
        result == resolveCombat(source.armies, target.armies,
                                attackerHighest, defenderHighest)
    IN IF result.attackerWins
       THEN LET movingArmies == source.armies - 1
                previousOwner == target.owner
                newOwner == source.owner
                removed == IF previousOwner + 1 \in DOMAIN teams
                           THEN [teams EXCEPT ![previousOwner + 1].territories =
                                                  RemoveFirst(@, target.id)]
                           ELSE teams
                added == IF newOwner + 1 \in DOMAIN removed
                         THEN [removed EXCEPT ![newOwner + 1].territories =
                                                  Append(@, target.id)]
                         ELSE removed
            IN [territories |-> [ts EXCEPT ![ti].owner = newOwner,
                                           ![ti].armies = movingArmies,
                                           ![si].armies = 1],
                teams |-> added,
                result |-> [result EXCEPT !.defenderLost = target.armies]]
       ELSE LET attackerLost == Min2(target.armies, source.armies - 1)
                attackingForce == result.attackerArmies - 1
                defenderLost == Min2(attackingForce, target.armies - 1)
            IN [territories |-> [ts EXCEPT ![si].armies = @ - attackerLost,
                                           ![ti].armies = @ - defenderLost],
                teams |-> teams,
                result |-> [result EXCEPT !.attackerLost = attackerLost,
                                          !.defenderLost = defenderLost]]

\* canAttack lines 104-118
canAttack(source, target) ==
    IF source.armies <= 1 THEN FALSE
    ELSE IF target.id \notin Range(source.neighbors) THEN FALSE
    ELSE IF source.owner = target.owner THEN FALSE
    ELSE TRUE

\* getValidAttackTargets lines 122-140: positions of the targets, in array order
getValidAttackTargets(source, ts) ==
    IF source.armies <= 1 THEN <<>>
    ELSE LET valid(t) == t.id \in Range(source.neighbors) /\ t.owner # source.owner
         IN Positions(ts, valid)

(***************************************************************************)
(* game.ts: setting a game up                                              *)
(***************************************************************************)
\* createTeams lines 55-74
createTeams(teamCount, humanTeamIndex) ==
    [i \in 1..teamCount |-> [id |-> i - 1, territories |-> <<>>,
                             isHuman |-> (i - 1 = humanTeamIndex)]]

\* assignTerritoriesToTeams lines 80-102, given the shuffled positions
RECURSIVE AssignRoundRobin(_, _, _, _)
AssignRoundRobin(ts, teams, shuffled, i) ==
    IF i >= Len(shuffled) THEN [territories |-> ts, teams |-> teams]
    ELSE LET teamIndex == i % Len(teams)
             p == shuffled[i + 1]
         IN AssignRoundRobin([ts EXCEPT ![p].owner = teamIndex],
                             [teams EXCEPT ![teamIndex + 1].territories =
                                               Append(@, ts[p].id)],
                             shuffled, i + 1)

assignTerritoriesToTeams(ts, teams, shuffled) ==
    AssignRoundRobin(ts, [k \in 1..Len(teams) |-> [teams[k] EXCEPT !.territories = <<>>]],
                     shuffled, 0)

\* assignTerritoryTypes lines 148-159: bigPercent is a percentage in 20..29
\* (Math.random() * 0.10 is below 0.10), Math.round rounds half up
bigCount(n, bigPercent) == (2 * n * bigPercent + 100) \div 200

assignTerritoryTypes(ts, bigPercent, shuffled) ==
    [p \in 1..Len(ts) |->
        [ts[p] EXCEPT !.type =
            IF \E i \in 0..(Len(shuffled) - 1) :
                   shuffled[i + 1] = p /\ i < bigCount(Len(ts), bigPercent)
            THEN "big" ELSE "small"]]

maxArmies(t) == IF t.type = "big" THEN 10 ELSE 7

\* one pass of the distribution loops (lines 184-196 and 478-492): an eligible
\* territory among the positions given gets one more army; with none eligible
\* the loop breaks and the territories stay as they are
GiveOne(ts, among) ==
    LET eligible == {p \in among : ts[p].armies < maxArmies(ts[p])}
    IN IF eligible = {} THEN {ts}
       ELSE {[ts EXCEPT ![p].armies = @ + 1] : p \in eligible}

\* the outcomes of the loop run with the budget remaining, from each of S
RECURSIVE Distribute(_, _, _)
Distribute(S, among, remaining) ==
    IF remaining <= 0 THEN S
    ELSE Distribute(UNION {GiveOne(ts, among) : ts \in S}, among, remaining - 1)

\* assignInitialArmies lines 166-198: the outcomes after the teams from k on
RECURSIVE AssignArmiesFrom(_, _, _, _)
AssignArmiesFrom(S, teams, armiesPerTeam, k) ==
    IF k > Len(teams) THEN S
    ELSE LET perTeam(ts) ==
                 LET teamTerritories == {p \in 1..Len(ts) : ts[p].owner = teams[k].id}
                     started == [p \in 1..Len(ts) |->
                                    IF p \in teamTerritories
                                    THEN [ts[p] EXCEPT !.armies = 1] ELSE ts[p]]
                 IN IF teamTerritories = {} THEN {ts}
                    ELSE Distribute({started}, teamTerritories,
                                    armiesPerTeam - Cardinality(teamTerritories))
         IN AssignArmiesFrom(UNION {perTeam(ts) : ts \in S}, teams, armiesPerTeam, k + 1)

assignInitialArmies(ts, teams, armiesPerTeam) ==
    AssignArmiesFrom({ts}, teams, armiesPerTeam, 1)

\* startGame lines 234-246
startGame(ts, teams) ==
    [teams |-> teams,
     territories |-> ts,
     currentTeamIndex |-> 0,
     selectedTerritory |-> Null,
     phase |-> "select",
     turnNumber |-> 1,
     lastCombatResult |-> NoResult,
     winner |-> Null,
     capturedThisTurn |-> FALSE]

(***************************************************************************)
(* game.ts: the operations on a GameState                                  *)
(***************************************************************************)
getCurrentTeam(state) == state.teams[state.currentTeamIndex + 1]

\* checkVictory lines 504-524
checkVictory(state) ==
    LET teamsWithTerritories == {state.territories[p].owner : p \in 1..Len(state.territories)}
                                    \ {Null}
    IN IF Cardinality(teamsWithTerritories) = 1
       THEN CHOOSE o \in teamsWithTerritories : TRUE
       ELSE Null

\* a selection that does not look at the owner of the territory
selectTerritoryAnyOwner(state, territoryId) ==
    IF state.phase # "select" /\ state.phase # "attack" THEN state
    ELSE LET p == FindById(state.territories, territoryId)
         IN IF p = 0 THEN state
            ELSE IF getValidAttackTargets(state.territories[p], state.territories) = <<>>
                 THEN [state EXCEPT !.selectedTerritory = territoryId]
            ELSE [state EXCEPT !.selectedTerritory = territoryId, !.phase = "attack"]

\* selectTerritory lines 267-298
selectTerritory(state, territoryId) ==
    IF state.phase # "select" /\ state.phase # "attack" THEN state
    ELSE LET p == FindById(state.territories, territoryId)
         IN IF p = 0 THEN state
            ELSE IF state.territories[p].owner # state.currentTeamIndex THEN state
            ELSE IF getValidAttackTargets(state.territories[p], state.territories) = <<>>
                 THEN [state EXCEPT !.selectedTerritory = territoryId]
            ELSE [state EXCEPT !.selectedTerritory = territoryId, !.phase = "attack"]

\* deselectTerritory lines 303-309
deselectTerritory(state) ==
    [state EXCEPT !.selectedTerritory = Null, !.phase = "select"]

\* an attack executed without asking canAttack
attemptAttackUnchecked(state, targetId, attackerHighest, defenderHighest) ==
    IF state.selectedTerritory = Null THEN state
    ELSE LET si == FindById(state.territories, state.selectedTerritory)
             ti == FindById(state.territories, targetId)
         IN IF si = 0 \/ ti = 0 THEN state
            ELSE LET fought == executeAttack(state.territories, state.teams, si, ti,
                                             attackerHighest, defenderHighest)
                     after == [state EXCEPT !.territories = fought.territories,
                                            !.teams = fought.teams]
                     winner == checkVictory(after)
                 IN [after EXCEPT !.selectedTerritory = Null,
                                  !.phase = IF winner # Null THEN "gameOver" ELSE "select",
                                  !.lastCombatResult = fought.result,
                                  !.winner = winner,
                                  !.capturedThisTurn =
                                      state.capturedThisTurn \/ fought.result.attackerWins]

\* attemptAttack lines 315-351, given the highest roll of each side
attemptAttack(state, targetId, attackerHighest, defenderHighest) ==
    IF state.selectedTerritory = Null THEN state
    ELSE LET si == FindById(state.territories, state.selectedTerritory)
             ti == FindById(state.territories, targetId)
         IN IF si = 0 \/ ti = 0 THEN state
            ELSE IF ~canAttack(state.territories[si], state.territories[ti]) THEN state
            ELSE LET fought == executeAttack(state.territories, state.teams, si, ti,
                                             attackerHighest, defenderHighest)
                     after == [state EXCEPT !.territories = fought.territories,
                                            !.teams = fought.teams]
                     winner == checkVictory(after)
                     captured == state.capturedThisTurn \/ fought.result.attackerWins
                 IN [after EXCEPT !.selectedTerritory = Null,
                                  !.phase = IF winner # Null THEN "gameOver" ELSE "select",
                                  !.lastCombatResult = fought.result,
                                  !.winner = winner,
                                  !.capturedThisTurn = captured]

\* findLargestContiguousGroup lines 427-450: the BFS from one territory
RECURSIVE GroupBfs(_, _, _, _, _)
GroupBfs(ts, teamId, queue, visited, groupSize) ==
    IF queue = <<>> THEN [visited |-> visited, groupSize |-> groupSize]
    ELSE LET currentId == Head(queue)
             seen == visited \cup {currentId}
             c == FindById(ts, currentId)
             wanted == {n \in Range(ts[c].neighbors) :
                           /\ n \notin seen
                           /\ FindById(ts, n) # 0
                           /\ ts[FindById(ts, n)].owner = teamId}
         IN IF currentId \in visited
            THEN GroupBfs(ts, teamId, Tail(queue), visited, groupSize)
            ELSE IF c = 0 \/ ts[c].owner # teamId
            THEN GroupBfs(ts, teamId, Tail(queue), seen, groupSize)
            ELSE GroupBfs(ts, teamId, Tail(queue) \o SeqKeep(ts[c].neighbors, wanted),
                          seen, groupSize + 1)

\* lines 424-455: the loop over the team's territories, from position k on
RECURSIVE GroupLoop(_, _, _, _, _)
GroupLoop(ts, teamId, k, visited, largestGroup) ==
    IF k > Len(ts) THEN largestGroup
    ELSE IF ts[k].owner # teamId \/ ts[k].id \in visited
    THEN GroupLoop(ts, teamId, k + 1, visited, largestGroup)
    ELSE LET found == GroupBfs(ts, teamId, <<ts[k].id>>, visited, 0)
         IN GroupLoop(ts, teamId, k + 1, found.visited,
                      IF found.groupSize > largestGroup THEN found.groupSize
                      ELSE largestGroup)

\* findLargestContiguousGroup lines 419-458
findLargestContiguousGroup(ts, teamId) == GroupLoop(ts, teamId, 1, {}, 0)

\* the reinforcements without the halving for a turn without a capture
calculateResupplyNoPenalty(state) ==
    LET currentTeam == getCurrentTeam(state)
        totalTerritories == Cardinality({p \in 1..Len(state.territories) :
                                            state.territories[p].owner = currentTeam.id})
        largestGroup == findLargestContiguousGroup(state.territories, currentTeam.id)
    IN IF totalTerritories > 0
       THEN Max2(1, largestGroup + (totalTerritories \div 4))
       ELSE 0

\* calculateResupply lines 398-413
calculateResupply(state) ==
    LET currentTeam == getCurrentTeam(state)
        totalTerritories == Cardinality({p \in 1..Len(state.territories) :
                                            state.territories[p].owner = currentTeam.id})
        largestGroup == findLargestContiguousGroup(state.territories, currentTeam.id)
        base == largestGroup + (totalTerritories \div 4)
        reinforcements == IF ~state.capturedThisTurn THEN base \div 2 ELSE base
    IN IF totalTerritories > 0 THEN Max2(1, reinforcements) ELSE 0

\* applyResupply lines 464-498: the states the random distribution can give
applyResupply(state) ==
    LET resupplyAmount == calculateResupply(state)
        currentTeam == getCurrentTeam(state)
        teamTerritories == {p \in 1..Len(state.territories) :
                               state.territories[p].owner = currentTeam.id}
        teamTerritoryIds == Range(currentTeam.territories)
        listed == {p \in 1..Len(state.territories) :
                      state.territories[p].id \in teamTerritoryIds}
    IN IF teamTerritories = {} \/ resupplyAmount = 0 THEN {state}
       ELSE {[state EXCEPT !.territories = newTerritories] :
                newTerritories \in Distribute({state.territories}, listed, resupplyAmount)}

\* the next index taken without looking at the team's territories
NextTeamIndexNoSkip(state, nextTeamIndex, attempts) == nextTeamIndex

\* endTurn lines 366-376: the next team index after attempts failed tests
RECURSIVE NextTeamIndex(_, _, _)
NextTeamIndex(state, nextTeamIndex, attempts) ==
    IF attempts < Len(state.teams)
    THEN IF Len(state.teams[nextTeamIndex + 1].territories) > 0
         THEN nextTeamIndex
         ELSE NextTeamIndex(state, (nextTeamIndex + 1) % Len(state.teams), attempts + 1)
    ELSE nextTeamIndex

\* endTurn lines 357-391: the states it can return
endTurn(state) ==
    IF state.phase = "gameOver" THEN {state}
    ELSE {[newState EXCEPT
              !.currentTeamIndex =
                  NextTeamIndex(state, (state.currentTeamIndex + 1) % Len(state.teams), 0),
              !.selectedTerritory = Null,
              !.phase = IF checkVictory(newState) # Null THEN "gameOver" ELSE "select",
              !.turnNumber = state.turnNumber + 1,
              !.lastCombatResult = NoResult,
              !.winner = checkVictory(newState),
              !.capturedThisTurn = FALSE] :
             newState \in applyResupply(state)}

(***************************************************************************)
(* main.js generateAndRenderNewMap lines 276-285: the games a new game can *)
(* start with.  The map is one of a few small maps of the kind generateMap *)
(* returns (each territory a set of hexes, the neighbour sets computed by  *)
(* calculateTerritoryNeighbors); a game configuration is the record        *)
(* [shape, teamCount, armiesPerTeam, humans], humans being the team        *)
(* indices createTeams may draw as the human team.                         *)
(***************************************************************************)
ShapePath3 == << << <<0, 0>> >>, << <<1, 0>> >>, << <<2, 0>> >> >>

ShapePath4 == << << <<0, 0>> >>, << <<1, 0>> >>, << <<2, 0>> >>, << <<3, 0>> >> >>

ShapeTriangle == << << <<0, 0>> >>, << <<1, 0>> >>, << <<0, 1>> >> >>

\* the territories generateMap returns for a shape
generatedMap(shape) ==
    calculateTerritoryNeighbors(
        [i \in 1..Len(shape) |->
            [createTerritory(i - 1) EXCEPT
                !.hexes = [k \in 1..Len(shape[i]) |-> hexKey(shape[i][k])]]])

\* territory.ts createTerritory lines 20-30: owner undefined, armies 1, and
\* no type before assignTerritoryTypes
gameTerritory(t) ==
    [id |-> t.id, name |-> t.name, hexes |-> t.hexes, neighbors |-> t.neighbors,
     owner |-> Null, armies |-> 1, type |-> "undefined"]

BigPercents == 20..29

\* the random draws of one set-up
SetUps(cfg) ==
    LET positions == [i \in 1..Len(cfg.shape) |-> i]
    IN {[humanTeamIndex |-> h, owners |-> s1, bigPercent |-> bp, types |-> s2] :
           h \in cfg.humans, s1 \in shuffleArray(positions),
           bp \in BigPercents, s2 \in shuffleArray(positions)}

\* lines 278-285 for one choice of the draws
GamesOf(cfg, u) ==
    LET map == generatedMap(cfg.shape)
        assigned == assignTerritoriesToTeams([i \in 1..Len(map) |-> gameTerritory(map[i])],
                                             createTeams(cfg.teamCount, u.humanTeamIndex),
                                             u.owners)
        typed == assignTerritoryTypes(assigned.territories, u.bigPercent, u.types)
    IN {startGame(ts, assigned.teams) :
           ts \in assignInitialArmies(typed, assigned.teams, cfg.armiesPerTeam)}

NewGames(cfg) == UNION {GamesOf(cfg, u) : u \in SetUps(cfg)}

\* the map variables once generateMap has returned the map of a shape
Generated(shape) ==
    /\ pc = "done"
    /\ config = [gridWidth |-> Len(shape), gridHeight |-> 1, territoryCount |-> Len(shape),
                 minTerritorySize |-> 1, maxTerritorySize |-> 1, emptyTilePercent |-> 0]
    /\ allHexes = [i \in 1..Len(shape) |-> shape[i][1]]
    /\ emptyHexes = {}
    /\ unclaimed = <<>>
    /\ territories = generatedMap(shape)
    /\ frontiers = <<>>
    /\ iterations = 0
    /\ order = <<>>
    /\ seeds = <<>>

(***************************************************************************)
(* The game operations called in any order on the state of a new game.     *)
(***************************************************************************)
MaxTurns == 3

GameConfigs ==
    {[shape |-> ShapePath3, teamCount |-> 2, armiesPerTeam |-> 12, humans |-> {0}],
     [shape |-> ShapePath3, teamCount |-> 3, armiesPerTeam |-> 3, humans |-> {0}],
     [shape |-> ShapePath4, teamCount |-> 2, armiesPerTeam |-> 3, humans |-> {0}]}

GameInit ==
    \E cfg \in GameConfigs :
        /\ Generated(cfg.shape)
        /\ gameState \in NewGames(cfg)
        /\ isComputerPlaying = FALSE
        /\ gameGeneration = 1
        /\ gameStarted = FALSE
        /\ coroutines = <<>>
        /\ overlays = {}

\* the ids a caller can pass: those of the territories and one unknown id
TerritoryIds == {gameState.territories[p].id : p \in 1..Len(gameState.territories)}
                    \cup {Len(gameState.territories)}

GameFrame == UNCHANGED <<mapVars, isComputerPlaying, gameGeneration, gameStarted,
                         coroutines, overlays>>

SelectTerritory ==
    /\ \E territoryId \in TerritoryIds : gameState' = selectTerritory(gameState, territoryId)
    /\ GameFrame

DeselectTerritory ==
    /\ gameState' = deselectTerritory(gameState)
    /\ GameFrame

\* the states attemptAttack(state, targetId) can return, over the dice
attackOutcomes(state, targetId) ==
    LET si == FindById(state.territories, state.selectedTerritory)
        ti == FindById(state.territories, targetId)
    IN {attemptAttack(state, targetId, attackerHighest, defenderHighest) :
           attackerHighest \in HighestRolls(IF si = 0 THEN 0 ELSE state.territories[si].armies),
           defenderHighest \in HighestRolls(IF ti = 0 THEN 0 ELSE state.territories[ti].armies)}

AttemptAttack ==
    /\ \E targetId \in TerritoryIds : gameState' \in attackOutcomes(gameState, targetId)
    /\ GameFrame

EndTurn ==
    /\ gameState.turnNumber < MaxTurns
    /\ gameState' \in endTurn(gameState)
    /\ GameFrame

GameNext == SelectTerritory \/ DeselectTerritory \/ AttemptAttack \/ EndTurn

SpecGame == GameInit /\ [][GameNext]_vars

(***************************************************************************)
(* src/src/ai.js: the attack the computer chooses.  The score of an attack *)
(* is 10 * s / t + 2 * (s - t) + (10 - t) for s source and t target        *)
(* armies; scores are compared as exact fractions.                         *)
(***************************************************************************)
MAX_ATTACKS_PER_TURN == 15

\* calculateAttackScore lines 40-49, times the target's armies
ScoreTimesTarget(s, t) == 10 * s + (2 * (s - t) + (10 - t)) * t

\* findAllAttacks lines 11-31: the attacks as pairs of positions <<source, target>>
AllAttacks(state) ==
    LET ts == state.territories
    IN {a \in (1..Len(ts)) \X (1..Len(ts)) :
           /\ ts[a[1]].owner = getCurrentTeam(state).id
           /\ ts[a[1]].armies > 1
           /\ a[2] \in Range(getValidAttackTargets(ts[a[1]], ts))}

\* the score of attack a is above the score of attack b
ScoreAbove(ts, a, b) ==
    ScoreTimesTarget(ts[a[1]].armies, ts[a[2]].armies) * ts[b[2]].armies >
        ScoreTimesTarget(ts[b[1]].armies, ts[b[2]].armies) * ts[a[2]].armies

\* attack a was pushed before attack b (lines 16-30)
PushedBefore(a, b) == a[1] < b[1] \/ (a[1] = b[1] /\ a[2] < b[2])

NoAttack == [sourceId |-> Null, targetId |-> Null]

\* findBestAttack lines 54-72: the first attack of the (stable) sort by score
\* descending, if its score is at least 5
findBestAttack(state) ==
    LET ts == state.territories
        attacks == AllAttacks(state)
        bestAttack == CHOOSE a \in attacks :
                          \A b \in attacks \ {a} :
                              \/ ScoreAbove(ts, a, b)
                              \/ ~ScoreAbove(ts, b, a) /\ PushedBefore(a, b)
    IN IF attacks = {} THEN NoAttack
       ELSE IF ScoreTimesTarget(ts[bestAttack[1]].armies, ts[bestAttack[2]].armies) >=
                   5 * ts[bestAttack[2]].armies
       THEN [sourceId |-> ts[bestAttack[1]].id, targetId |-> ts[bestAttack[2]].id]
       ELSE NoAttack

\* shouldContinueAttacking lines 77-85
shouldContinueAttacking(state, attacksThisTurn) ==
    IF attacksThisTurn >= MAX_ATTACKS_PER_TURN THEN FALSE
    ELSE findBestAttack(state) # NoAttack

(***************************************************************************)
(* src/unnamed/part_001 (main.js): the handlers and runComputerTurns.      *)
(*                                                                         *)
(* An activation of runComputerTurns that is suspended in an await is a    *)
(* record of coroutines: at is the await it is suspended in ("delay500",   *)
(* "delay300", "animation", "delay400" inside executeComputerTurn,         *)
(* "delayEnd" its last delay), the other fields are its locals.  A step of *)
(* the model is one handler or one resumption up to the next await; the    *)
(* resumptions of different activations and the handlers interleave in any *)
(* order.  overlays holds what was shown since the last new game: "start"  *)
(* (the game start modal, until its button is clicked), "victory" and      *)
(* "defeat".                                                               *)
(***************************************************************************)
\* beginGame of game.js is not among the sources; main.js line 332 says it
\* randomly selects who goes first
beginGame(state) ==
    {[state EXCEPT !.currentTeamIndex = k] : k \in 0..(Len(state.teams) - 1)}

\* getSelectedTerritoryTargets, game.ts lines 529-540
getSelectedTerritoryTargets(state) ==
    IF state.selectedTerritory = Null THEN <<>>
    ELSE LET p == FindById(state.territories, state.selectedTerritory)
         IN IF p = 0 THEN <<>>
            ELSE getValidAttackTargets(state.territories[p], state.territories)

RemoveAt(s, i) == SubSeq(s, 1, i - 1) \o SubSeq(s, i + 1, Len(s))

\* what a handler or a resumption leaves in the variables it may write
Become(gs, cs, ov, playing) ==
    /\ gameState' = gs
    /\ coroutines' = cs
    /\ overlays' = ov
    /\ isComputerPlaying' = playing

MaxMainTurns == 8

MaxLaterTurns == 2

\* the turns a game is followed for: the first game of the page longer than
\* the games after a Back
TurnBound == IF gameGeneration = 1 THEN MaxMainTurns ELSE MaxLaterTurns

\* runComputerTurns lines 558-564: the end of activation i
Finish(cs, i, gs, ov, playing) ==
    Become(gs, RemoveAt(cs, i), ov,
           IF gameGeneration = cs[i].thisGameGeneration THEN FALSE ELSE playing)

\* lines 526-547: the test of the while loop and the pass up to the await
LoopHead(cs, i, gs, ov, playing) ==
    IF gs.winner = Null /\ cs[i].iterations < cs[i].maxIterations
    THEN IF gameGeneration # cs[i].thisGameGeneration
         THEN Become(gs, RemoveAt(cs, i), ov, playing)
         ELSE IF getCurrentTeam(gs).isHuman
         THEN Finish([cs EXCEPT ![i].iterations = @ + 1], i, gs,
                     IF Positions(gs.territories,
                                  LAMBDA t : t.owner = getCurrentTeam(gs).id) = <<>>
                     THEN ov \cup {"defeat"} ELSE ov,
                     playing)
         ELSE Become(gs, [cs EXCEPT ![i].iterations = @ + 1, ![i].at = "delay500"],
                     ov, playing)
    ELSE Finish(cs, i, gs, ov, playing)

\* lines 548-557: executeComputerTurn has returned to activation i
TurnReturned(cs, i, gs, ov, playing) ==
    IF gameGeneration # cs[i].thisGameGeneration
    THEN Become(gs, RemoveAt(cs, i), ov, playing)
    ELSE IF gs.winner # Null
    THEN Finish(cs, i, gs, ov \cup {"victory"}, playing)
    ELSE LoopHead(cs, i, gs, ov, playing)

\* executeComputerTurn lines 599-611 and 645-661: the test of the attack loop,
\* then either the next attack up to its delay or the end of the turn
AttackLoop(cs, i, gs, ov, playing) ==
    LET attack == findBestAttack(gs)
    IN IF shouldContinueAttacking(gs, cs[i].attacksThisTurn) /\ attack # NoAttack
       THEN Become(gs, [cs EXCEPT ![i].at = "delay300",
                                  ![i].source = attack.sourceId,
                                  ![i].target = attack.targetId],
                   ov, playing)
       ELSE /\ gs.turnNumber < TurnBound
            /\ \E ended \in endTurn(gs) :
                   Become(ended, [cs EXCEPT ![i].at = "delayEnd"], ov, playing)

\* lines 633-643: after the combat and its animation
AfterCombat(cs, i, gs, ov, playing) ==
    IF gs.winner # Null
    THEN TurnReturned(cs, i, gs, ov, playing)
    ELSE Become(gs, [cs EXCEPT ![i].at = "delay400"], ov, playing)

\* runComputerTurns lines 506-525, called by a handler that leaves gs
runComputerTurns(cs, gs, ov, playing, started) ==
    IF gs.phase = "gameOver" \/ ~started \/ playing
    THEN Become(gs, cs, ov, playing)
    ELSE LoopHead(Append(cs, [at |-> "start",
                              thisGameGeneration |-> gameGeneration,
                              iterations |-> 0,
                              maxIterations |-> Len(gs.teams) * 2,
                              attacksThisTurn |-> 0,
                              source |-> Null,
                              target |-> Null]),
                  Len(cs) + 1, gs, ov, TRUE)

MainFrame == UNCHANGED <<mapVars, gameGeneration, gameStarted>>

\* executeComputerTurn resumed after await delay(500), line 596
ResumeDelay500 ==
    /\ \E i \in 1..Len(coroutines) :
           /\ coroutines[i].at = "delay500"
           /\ AttackLoop([coroutines EXCEPT ![i].attacksThisTurn = 0], i,
                         gameState, overlays, isComputerPlaying)
    /\ MainFrame

\* resumed after await delay(300), line 611: lines 613-624
ResumeDelay300 ==
    /\ \E i \in 1..Len(coroutines) :
           /\ coroutines[i].at = "delay300"
           /\ \E fought \in attackOutcomes(selectTerritory(gameState, coroutines[i].source),
                                          coroutines[i].target) :
                  LET cs == [coroutines EXCEPT ![i].attacksThisTurn = @ + 1]
                  IN IF fought.lastCombatResult # NoResult
                     THEN Become(fought, [cs EXCEPT ![i].at = "animation"],
                                 overlays, isComputerPlaying)
                     ELSE AfterCombat(cs, i, fought, overlays, isComputerPlaying)
    /\ MainFrame

\* resumed after await showCombatAnimation, line 624
ResumeAnimation ==
    /\ \E i \in 1..Len(coroutines) :
           /\ coroutines[i].at = "animation"
           /\ AfterCombat(coroutines, i, gameState, overlays, isComputerPlaying)
    /\ MainFrame

\* resumed after await delay(400), line 643
ResumeDelay400 ==
    /\ \E i \in 1..Len(coroutines) :
           /\ coroutines[i].at = "delay400"
           /\ AttackLoop(coroutines, i, gameState, overlays, isComputerPlaying)
    /\ MainFrame

\* resumed after await delay(300), line 661
ResumeDelayEnd ==
    /\ \E i \in 1..Len(coroutines) :
           /\ coroutines[i].at = "delayEnd"
           /\ TurnReturned(coroutines, i, gameState, overlays, isComputerPlaying)
    /\ MainFrame

\* handleHexClick lines 364-448
HandleHexClick ==
    /\ gameState.phase # "gameOver"
    /\ gameStarted
    /\ ~isComputerPlaying
    /\ getCurrentTeam(gameState).isHuman
    /\ \E p \in 1..Len(gameState.territories) :
           LET territory == gameState.territories[p]
           IN IF territory.owner = gameState.currentTeamIndex
              THEN /\ gameState' = IF gameState.selectedTerritory = territory.id
                                   THEN deselectTerritory(gameState)
                                   ELSE selectTerritory(gameState, territory.id)
                   /\ UNCHANGED overlays
              ELSE /\ gameState.selectedTerritory # Null
                   /\ p \in Range(getSelectedTerritoryTargets(gameState))
                   /\ \E fought \in attackOutcomes(gameState, territory.id) :
                          /\ gameState' = fought
                          /\ overlays' = IF fought.phase = "gameOver" /\ fought.winner # Null
                                         THEN overlays \cup {"victory"} ELSE overlays
    /\ UNCHANGED <<coroutines, isComputerPlaying>>
    /\ MainFrame

\* handleEndTurn lines 452-502
HandleEndTurn ==
    /\ gameState.phase # "gameOver"
    /\ gameStarted
    /\ ~isComputerPlaying
    /\ getCurrentTeam(gameState).isHuman
    /\ gameState.turnNumber < TurnBound
    /\ \E ended \in endTurn(gameState) :
           IF ended.phase = "gameOver" /\ ended.winner # Null
           THEN Become(ended, coroutines, overlays \cup {"victory"}, isComputerPlaying)
           ELSE IF ~getCurrentTeam(ended).isHuman
           THEN runComputerTurns(coroutines, ended, overlays, isComputerPlaying, gameStarted)
           ELSE Become(ended, coroutines, overlays, isComputerPlaying)
    /\ MainFrame

\* handleSvgBackgroundClick lines 351-360
HandleSvgBackgroundClick ==
    /\ gameState' = deselectTerritory(gameState)
    /\ UNCHANGED <<coroutines, overlays, isComputerPlaying>>
    /\ MainFrame

MaxGenerations == 2

\* GAME_CONFIGS lines 29-60 cut down to the map of three territories that all
\* touch each other, one for each of three teams
MainConfig == [shape |-> ShapeTriangle, teamCount |-> 3, armiesPerTeam |-> 2, humans |-> {0}]

\* lines 278-285: the games a new map can start with, for the draw of the
\* owners that gives territory i - 1 to team i - 1 (the three territories
\* touch each other, so another draw renames the territories)
MainGames ==
    UNION {GamesOf(MainConfig, u) :
               u \in {v \in SetUps(MainConfig) : v.owners = <<1, 2, 3>>}}

\* generateAndRenderNewMap lines 265-307 (the Back button, handleBack)
GenerateAndRenderNewMap ==
    /\ gameGeneration < MaxGenerations
    /\ gameGeneration' = gameGeneration + 1
    /\ isComputerPlaying' = FALSE
    /\ gameStarted' = FALSE
    /\ gameState' \in MainGames
    /\ overlays' = {"start"}
    /\ UNCHANGED <<mapVars, coroutines>>

\* the click on "Start Game", lines 326-346
StartGameClick ==
    /\ "start" \in overlays
    /\ gameStarted' = TRUE
    /\ \E begun \in beginGame(gameState) :
           IF ~getCurrentTeam(begun).isHuman
           THEN runComputerTurns(coroutines, begun, overlays \ {"start"}, FALSE, TRUE)
           ELSE Become(begun, coroutines, overlays \ {"start"}, FALSE)
    /\ UNCHANGED <<mapVars, gameGeneration>>

\* init() lines 66-108: the page after the first generateAndRenderNewMap
MainInit ==
    /\ Generated(MainConfig.shape)
    /\ gameState \in MainGames
    /\ isComputerPlaying = FALSE
    /\ gameGeneration = 1
    /\ gameStarted = FALSE
    /\ coroutines = <<>>
    /\ overlays = {"start"}

MainNext ==
    \/ GenerateAndRenderNewMap
    \/ StartGameClick
    \/ HandleHexClick
    \/ HandleEndTurn
    \/ HandleSvgBackgroundClick
    \/ ResumeDelay500
    \/ ResumeDelay300
    \/ ResumeAnimation
    \/ ResumeDelay400
    \/ ResumeDelayEnd

SpecMain == MainInit /\ [][MainNext]_vars

(***************************************************************************)
(* Vocabulary of the game claims.                                          *)
(***************************************************************************)
GamePositions == 1..Len(gameState.territories)

\* a step in which attemptAttack executed a combat: only combat changes a
\* territory without ending the turn
CombatStep ==
    /\ gameState'.turnNumber = gameState.turnNumber
    /\ gameState'.territories # gameState.territories

\* the position of the source of the combat of a step, and of the target of
\* a capture (a failed attack on a single army leaves the target as it was)
CombatSource == FindById(gameState.territories, gameState.selectedTerritory)

CapturedTarget ==
    CHOOSE p \in GamePositions :
        gameState'.territories[p].owner # gameState.territories[p].owner

\* C31: every territory holds at least 1 army in every state of a game, a
\* capture leaves the source with exactly 1 army and gives the target the
\* source's armies minus 1 (at least 1), and a failed attack leaves both
\* sides with at least 1 army.
C31_ArmiesAtLeastOne ==
    /\ [](\A p \in GamePositions : gameState.territories[p].armies >= 1)
    /\ [][CombatStep =>
             LET source == gameState.territories[CombatSource]
                 sourceAfter == gameState'.territories[CombatSource]
                 targetAfter == gameState'.territories[CapturedTarget]
             IN IF gameState'.lastCombatResult.attackerWins
                THEN /\ sourceAfter.armies = 1
                     /\ targetAfter.armies = source.armies - 1
                     /\ targetAfter.armies >= 1
                ELSE /\ sourceAfter.armies >= 1
                     /\ sourceAfter.armies < source.armies
                     /\ \A p \in GamePositions :
                            /\ gameState'.territories[p].armies >= 1
                            /\ gameState'.territories[p].owner = gameState.territories[p].owner]_vars

\* a capture happened: the target holds all the armies but the one left behind
C31_Witness ==
    /\ gameState.lastCombatResult.attackerWins
    /\ gameState.lastCombatResult.attackerArmies >= 3
    /\ \E p \in GamePositions :
           gameState.territories[p].armies = gameState.lastCombatResult.attackerArmies - 1

\* a failed attack happened that cost the attacker all armies but one
C31_WitnessFailed ==
    /\ gameState.lastCombatResult # NoResult
    /\ ~gameState.lastCombatResult.attackerWins
    /\ gameState.lastCombatResult.attackerLost = gameState.lastCombatResult.attackerArmies - 1
    /\ gameState.lastCombatResult.attackerLost >= 1

\* C32: in every state of a game a "small" territory holds at most 7 armies
\* and a "big" territory at most 10.
C32_TypeLimits ==
    \A p \in GamePositions :
        gameState.territories[p].armies <= maxArmies(gameState.territories[p])

\* related to C32: only a capture takes a territory above its limit; the
\* initial assignment and the resupply of endTurn never do
C32_OnlyCaptureExceeds ==
    [][(\E p \in GamePositions :
           /\ gameState.territories[p].armies <= maxArmies(gameState.territories[p])
           /\ gameState'.territories[p].armies > maxArmies(gameState'.territories[p])) =>
          (/\ CombatStep
           /\ gameState'.lastCombatResult.attackerWins)]_vars

\* the ids of the territories a team owns according to territory.owner
OwnedIds(state, teamId) ==
    {state.territories[p].id : p \in {q \in 1..Len(state.territories) :
                                          state.territories[q].owner = teamId}}

NoDuplicates(s) == \A i, j \in 1..Len(s) : s[i] = s[j] => i = j

\* C33: for every team, team.territories holds exactly the ids of the
\* territories whose owner is that team, each once, and every territory is in
\* exactly one team's list.
C33_ListsMatchOwners ==
    /\ \A k \in 1..Len(gameState.teams) :
           /\ NoDuplicates(gameState.teams[k].territories)
           /\ Range(gameState.teams[k].territories) = OwnedIds(gameState, gameState.teams[k].id)
    /\ \A p \in GamePositions :
           Cardinality({k \in 1..Len(gameState.teams) :
                           gameState.territories[p].id \in Range(gameState.teams[k].territories)}) = 1

\* after a capture and an end of turn one team has lost its last territory and
\* another holds a captured territory behind the ones it started with
C33_Witness ==
    /\ gameState.turnNumber >= 2
    /\ \E k \in 1..Len(gameState.teams) : gameState.teams[k].territories = <<>>
    /\ \E k \in 1..Len(gameState.teams) :
           /\ Len(gameState.teams[k].territories) >= 2
           /\ \E i \in 1..(Len(gameState.teams[k].territories) - 1) :
                  gameState.teams[k].territories[i] > gameState.teams[k].territories[i + 1]

\* C34: whenever a territory is selected it is owned by the current team, and
\* every combat has a source owned by the current team with more than 1 army
\* and a target that is a neighbour of the source owned by another team.
C34_CombatIsLegal ==
    /\ [](gameState.selectedTerritory # Null =>
             /\ CombatSource # 0
             /\ gameState.territories[CombatSource].owner = gameState.currentTeamIndex)
    /\ [][CombatStep =>
             LET source == gameState.territories[CombatSource]
                 result == gameState'.lastCombatResult
             IN /\ gameState.selectedTerritory # Null
                /\ source.owner = gameState.currentTeamIndex
                /\ source.armies > 1
                /\ result.attackerArmies = source.armies
                /\ \E t \in GamePositions \ {CombatSource} :
                       /\ gameState.territories[t].id \in Range(source.neighbors)
                       /\ gameState.territories[t].owner # source.owner
                       /\ result.defenderArmies = gameState.territories[t].armies
                       /\ gameState'.territories[t].armies =
                              IF result.attackerWins THEN source.armies - 1
                              ELSE gameState.territories[t].armies - result.defenderLost
                       /\ \A p \in GamePositions \ {CombatSource, t} :
                              gameState'.territories[p] = gameState.territories[p]]_vars

\* a combat of the second team of the turn order has been executed
C34_Witness ==
    /\ gameState.lastCombatResult # NoResult
    /\ gameState.currentTeamIndex # 0
    /\ gameState.turnNumber >= 2

\* a territory that cannot attack is selected
C34_WitnessSelected ==
    /\ gameState.selectedTerritory # Null
    /\ gameState.phase = "select"

\* C35: a rejected operation returns the state it was given: selectTerritory
\* when the phase is neither "select" nor "attack", the id is unknown or the
\* territory is not owned by the current team; attemptAttack when nothing is
\* selected, the target id is unknown or canAttack is false; endTurn when the
\* phase is "gameOver".
C35_RejectedLeavesState ==
    /\ \A territoryId \in TerritoryIds :
           LET p == FindById(gameState.territories, territoryId)
           IN (\/ gameState.phase \notin {"select", "attack"}
               \/ p = 0
               \/ gameState.territories[p].owner # gameState.currentTeamIndex) =>
                  selectTerritory(gameState, territoryId) = gameState
    /\ \A targetId \in TerritoryIds :
           LET si == CombatSource
               ti == FindById(gameState.territories, targetId)
           IN (\/ gameState.selectedTerritory = Null
               \/ ti = 0
               \/ ~canAttack(gameState.territories[si], gameState.territories[ti])) =>
                  attackOutcomes(gameState, targetId) = {gameState}
    /\ gameState.phase = "gameOver" => endTurn(gameState) = {gameState}

\* the game is over with armies on the board: selectTerritory, attemptAttack
\* and endTurn are all rejected
C35_Witness ==
    /\ gameState.phase = "gameOver"
    /\ gameState.selectedTerritory = Null
    /\ \E p \in GamePositions : gameState.territories[p].armies > 1

\* a territory is selected and a neighbour of it cannot be attacked
C35_WitnessCannotAttack ==
    /\ gameState.selectedTerritory # Null
    /\ gameState.phase = "attack"
    /\ \E t \in GamePositions :
           /\ gameState.territories[t].id \in Range(gameState.territories[CombatSource].neighbors)
           /\ ~canAttack(gameState.territories[CombatSource], gameState.territories[t])

\* a step in which endTurn ended a turn
EndTurnStep == gameState'.turnNumber # gameState.turnNumber

\* the team k places after the current one in cyclic order
TeamAfter(state, k) == (state.currentTeamIndex + k) % Len(state.teams)

SomeTeamOwns(state) == \E p \in 1..Len(state.territories) : state.territories[p].owner # Null

\* C36: endTurn in a state that is not "gameOver" adds exactly 1 to turnNumber,
\* clears selectedTerritory, lastCombatResult and capturedThisTurn, and makes
\* the first team after the current one, in cyclic order, that owns a
\* territory the current team; a team without territories never becomes the
\* current team while some team owns a territory.
C36_EndTurnAdvances ==
    /\ [][EndTurnStep =>
             /\ gameState.phase # "gameOver"
             /\ gameState'.turnNumber = gameState.turnNumber + 1
             /\ gameState'.selectedTerritory = Null
             /\ gameState'.lastCombatResult = NoResult
             /\ gameState'.capturedThisTurn = FALSE
             /\ SomeTeamOwns(gameState) =>
                    \E k \in 1..Len(gameState.teams) :
                        /\ gameState'.currentTeamIndex = TeamAfter(gameState, k)
                        /\ OwnedIds(gameState, TeamAfter(gameState, k)) # {}
                        /\ \A j \in 1..(k - 1) : OwnedIds(gameState, TeamAfter(gameState, j)) = {}]_vars
    /\ [][(gameState'.currentTeamIndex # gameState.currentTeamIndex /\ SomeTeamOwns(gameState')) =>
             OwnedIds(gameState', gameState'.currentTeamIndex) # {}]_vars

\* the turn passed over a team that had lost its last territory
C36_Witness ==
    /\ gameState.turnNumber = 2
    /\ gameState.currentTeamIndex = 2
    /\ gameState.teams[2].territories = <<>>

\* the turn came back to the first team
C36_WitnessWrapped ==
    /\ gameState.turnNumber = 3
    /\ gameState.currentTeamIndex = 0
    /\ gameState.phase = "select"

\* C37: once the phase is "gameOver" no step changes the phase or a
\* territory, and in every state the winner is non-null only if the phase is
\* "gameOver", and then the winner owns every territory.
C37_GameOverAbsorbing ==
    /\ [][(gameState.phase = "gameOver") =>
             (/\ gameState'.phase = "gameOver"
              /\ gameState'.territories = gameState.territories)]_vars
    /\ [](gameState.winner # Null =>
             /\ gameState.phase = "gameOver"
             /\ \A p \in GamePositions : gameState.territories[p].owner = gameState.winner)

\* related to C37: a non-null winner owns every territory, and a game whose
\* phase is "gameOver" was won
C37_WinnerOwnsAll ==
    /\ gameState.winner # Null =>
           \A p \in GamePositions : gameState.territories[p].owner = gameState.winner
    /\ gameState.phase = "gameOver" => gameState.winner # Null

\* related to C37: selectTerritory, attemptAttack and endTurn leave a finished
\* game as it is; only deselectTerritory does not
C37_OnlyDeselectReopens ==
    [][(gameState.phase = "gameOver" /\ gameState' # gameState) =>
          gameState' = deselectTerritory(gameState)]_vars

\* the ids of the team's territories linked to one of S by a neighbour link, with S
RECURSIVE LinkedGroup(_, _, _)
LinkedGroup(state, teamId, S) ==
    LET next == S \cup {state.territories[p].id :
                            p \in {q \in 1..Len(state.territories) :
                                      /\ state.territories[q].owner = teamId
                                      /\ \E r \in 1..Len(state.territories) :
                                             /\ state.territories[r].id \in S
                                             /\ state.territories[q].id \in
                                                    Range(state.territories[r].neighbors)}}
    IN IF next = S THEN S ELSE LinkedGroup(state, teamId, next)

\* L: the size of the largest group of the team's territories connected
\* through neighbour links
LargestGroup(state, teamId) ==
    LET sizes == {Cardinality(LinkedGroup(state, teamId, {id})) : id \in OwnedIds(state, teamId)}
    IN IF sizes = {} THEN 0 ELSE CHOOSE n \in sizes : \A m \in sizes : m <= n

\* the amount the claim gives for the current team
ResupplyAmount(state) ==
    LET T == Cardinality(OwnedIds(state, state.currentTeamIndex))
        L == LargestGroup(state, state.currentTeamIndex)
        x == IF state.capturedThisTurn THEN L + (T \div 4) ELSE (L + (T \div 4)) \div 2
    IN IF T = 0 THEN 0 ELSE Max2(1, x)

\* the armies of a team, and the armies it can still take under the limits
TeamArmies(state, teamId) ==
    SumSeq([p \in 1..Len(state.territories) |->
               IF state.territories[p].owner = teamId THEN state.territories[p].armies ELSE 0])

TeamCapacity(state, teamId) ==
    SumSeq([p \in 1..Len(state.territories) |->
               IF state.territories[p].owner = teamId
               THEN Max2(0, maxArmies(state.territories[p]) - state.territories[p].armies)
               ELSE 0])

\* C38: calculateResupply returns 0 for a team without territories and
\* otherwise max(1, x), with x = L + floor(T/4) after a capture in the turn and
\* floor((L + floor(T/4)) / 2) without one; the resupply of endTurn adds
\* exactly min(that amount, remaining capacity under the type limits) armies,
\* all to territories of the current team, and changes no other territory.
C38_Resupply ==
    /\ [](calculateResupply(gameState) = ResupplyAmount(gameState))
    /\ [][EndTurnStep =>
             LET team == gameState.currentTeamIndex
             IN /\ TeamArmies(gameState', team) - TeamArmies(gameState, team) =
                       Min2(ResupplyAmount(gameState), TeamCapacity(gameState, team))
                /\ \A p \in GamePositions :
                       IF gameState.territories[p].owner = team
                       THEN /\ gameState'.territories[p].armies >= gameState.territories[p].armies
                            /\ gameState'.territories[p] =
                                   [gameState.territories[p] EXCEPT
                                       !.armies = gameState'.territories[p].armies]
                       ELSE gameState'.territories[p] = gameState.territories[p]]_vars

\* a resupply after a capture: the team got its whole largest group, more
\* than one army
C38_Witness ==
    /\ gameState.turnNumber = 2
    /\ Len(gameState.teams) = 3
    /\ gameState.teams[2].territories = <<>>
    /\ Len(gameState.teams[1].territories) = 2
    /\ TeamArmies(gameState, 0) = 5

\* a team about to end its turn with less room than reinforcements
C38_WitnessNoRoom ==
    /\ gameState.phase # "gameOver"
    /\ gameState.turnNumber < MaxTurns
    /\ ResupplyAmount(gameState) > TeamCapacity(gameState, gameState.currentTeamIndex)

\* a team with a territory cut off from its others, and a team with four
C38_WitnessGroups ==
    /\ LargestGroup(gameState, gameState.currentTeamIndex) <
           Cardinality(OwnedIds(gameState, gameState.currentTeamIndex))
    /\ gameState.capturedThisTurn

C38_WitnessFour ==
    /\ Cardinality(OwnedIds(gameState, gameState.currentTeamIndex)) = 4
    /\ calculateResupply(gameState) = 5

(***************************************************************************)
(* Vocabulary of the claims about main.js.                                 *)
(***************************************************************************)
\* the step ends an activation of runComputerTurns that was started for the
\* current game (lines 558-564 are its only end)
FinishedForCurrentGame ==
    \E i \in 1..Len(coroutines) :
        /\ coroutines[i].thisGameGeneration = gameGeneration
        /\ gameGeneration' = gameGeneration
        /\ coroutines' = RemoveAt(coroutines, i)

\* the human team of a game has no territory
HumanEliminated(state) ==
    \A t \in Range(state.teams) :
        t.isHuman => \A p \in 1..Len(state.territories) : state.territories[p].owner # t.id

\* C39: whenever runComputerTurns finishes for the current game, the game has a
\* winner, or the current team is the human team, or the human's defeat has
\* been shown; it never leaves a computer team as the current team of an
\* undecided game
C39_FinishesForHuman ==
    [][FinishedForCurrentGame =>
           \/ gameState'.winner # Null
           \/ getCurrentTeam(gameState').isHuman
           \/ "defeat" \in overlays']_vars

\* the step is a resumption of activation i: its record changes or goes
Acted(i) ==
    \/ coroutines' = RemoveAt(coroutines, i)
    \/ /\ Len(coroutines') = Len(coroutines)
       /\ coroutines'[i] # coroutines[i]

\* activation i was started for a game that generateAndRenderNewMap has replaced
Stale(i) == coroutines[i].thisGameGeneration # gameGeneration

\* activation i is suspended in a delay of executeComputerTurn after which it
\* goes on to findBestAttack and selectTerritory, attemptAttack or endTurn
AboutToAct(i) == coroutines[i].at \in {"delay500", "delay300", "delay400"}

\* C40, first part: no activation started for a replaced game changes the
\* state of the new game when it is resumed
C40_StaleLeavesNewGame ==
    [][\A i \in 1..Len(coroutines) : (Stale(i) /\ Acted(i)) => gameState' = gameState]_vars

\* C40, second part: at most one activation is about to act on gameState
C40_OneActs ==
    Cardinality({i \in 1..Len(coroutines) : AboutToAct(i)}) <= 1

\* C40: after generateAndRenderNewMap has replaced gameState no computer-turn
\* coroutine started for the previous game performs selectTerritory,
\* attemptAttack or endTurn on the new game's state, and at most one
\* computer-turn coroutine acts on gameState at any time
C40_NewGameInvalidates == C40_StaleLeavesNewGame /\ []C40_OneActs

====
